---- MODULE Spec2Model ----
(***************************************************************************)
(* The drawing canvas of the note application: gesture handling, shape     *)
(* construction, eraser hit-testing and the snapshot undo/redo history of  *)
(* src/src/lib/components/drawing/DrawingCanvas.svelte; the drawing        *)
(* sessions that MainEditor.svelte opens on it and the note store that     *)
(* receives their snapshots; the debounced auto-save of the note text.     *)
(*                                                                         *)
(* Modelling decisions:                                                    *)
(*  - the component's script variables are the state; every event handler  *)
(*    is an operator from a state record to a state record, named as in    *)
(*    the source, and one action applies it;                               *)
(*  - pointer positions are integer canvas pixels;                         *)
(*  - rendering (redrawCanvas, drawShape, drawCurrentPath, clearCanvas)    *)
(*    writes only to the 2D context, which is assumed to have been         *)
(*    obtained in onMount; it changes none of the variables below;         *)
(*  - a JSON text is modelled as the ordered list of its key/value pairs;  *)
(*  - a radius sqrt(n)/2 is stored exactly, as its radicand n;             *)
(*  - roughness is stored in tenths (10 is the slider's 1.0);              *)
(*  - JavaScript arrays and objects are references: the note store holds   *)
(*    the snapshot objects it was handed, and "shared" records which of    *)
(*    their arrays and shapes are the very objects of the live shape list, *)
(*    so that a push or an in-place assignment reaches them too;           *)
(*  - time is in milliseconds; a timer fires at its deadline, and time     *)
(*    does not pass a pending deadline;                                    *)
(*  - a note's text is the pair <<note it was typed in, version>>.         *)
(***************************************************************************)
EXTENDS Integers, Sequences, FiniteSets, TLC

VARIABLES
    isDrawing,      \* let isDrawing
    currentPath,    \* let currentPath
    drawings,       \* let drawings
    undoStack,      \* let undoStack (JSON texts)
    redoStack,      \* let redoStack (JSON texts)
    currentTool,    \* let currentTool
    strokeColor,    \* let strokeColor
    strokeWidth,    \* let strokeWidth
    roughness,      \* let roughness, in tenths
    startX,         \* let startX
    startY,         \* let startY
    currentX,       \* let currentX
    currentY,       \* let currentY
    notes,          \* notesStore.js: the notes store (id, title, content, tags,
                    \* createdAt, updatedAt, isPinned, drawings of each note)
    shared,         \* heap: shared[n][d] tells whether the array of the snapshot
                    \* notes[n].drawings[d] is the live drawings array, and for each
                    \* of its shapes the index of the live shape that is the same
                    \* object (0 when none is)
    open,           \* MainEditor: let showDrawing, bound to the canvas's open
    currentNoteId,  \* notesStore.js: currentNoteId
    canvasWidth,    \* canvas.width (0 while there is no canvas element)
    canvasHeight,   \* canvas.height
    lastError,      \* the uncaught exception of the latest handler, or "none"
    now,            \* Date.now()
    editorContent,  \* RichTextEditor: editor.getHTML()
    lastSavedContent,   \* MainEditor: let lastSavedContent
    debouncedSave,      \* MainEditor: const debouncedSave, the debounce closure
    editorDebouncedSave,\* RichTextEditor: const debouncedSave, the debounce closure
    searchQuery,    \* notesStore.js: searchQuery
    selectedTags,   \* notesStore.js: selectedTags
    sortBy,         \* notesStore.js: sortBy
    sortOrder,      \* notesStore.js: sortOrder
    autoSaveTimeout,    \* notesStore.js: let autoSaveTimeout: the deadline of the
                        \* pending timer of saveToStorage, or NoTimeout
    localStorage,   \* localStorage.getItem(STORAGE_KEY): the text of the notes
    editorState,    \* editorStore.js: editorState, its history and historyIndex
    editorInstance, \* editorStore.js: editorInstance: the document of the editor,
                    \* or NoEditor
    hPre,           \* history variable: shape list and stacks before the latest
                    \* pointer-down, undo, redo or clear-all (before the undo
                    \* when a redo follows an undo directly)
    hLast,          \* history variable: what the latest operation was: "open" (a
                    \* gesture in progress), "gesture" (a gesture from pointer-down
                    \* to pointer-up with no other handler in between), "broken",
                    \* "stop", "undo", "redo", "undoredo", "clear", "select", "none"
    hActs,          \* history variable: the number of committed actions so far
                    \* when nothing else has happened since the empty canvas,
                    \* and -1 otherwise
    hNotes,         \* history variable: the notes list when the drawing surface
                    \* was last opened or mounted, or just before the latest save
    hTyped,         \* history variable: per note, the latest text typed into it
    hInvoked,       \* history variable: the latest invocation of the function
                    \* MainEditor debounces: its time, the time of the latest call
                    \* of the wrapper and its argument
    hMount          \* history variable: the props of the latest mount

progVars == <<isDrawing, currentPath, drawings, undoStack, redoStack, currentTool,
              strokeColor, strokeWidth, roughness, startX, startY, currentX, currentY,
              notes, shared, autoSaveTimeout>>
canvasVars == <<open, canvasWidth, canvasHeight, lastError>>
editorVars == <<currentNoteId, now, editorContent, lastSavedContent,
                debouncedSave, editorDebouncedSave>>
viewVars == <<searchQuery, selectedTags, sortBy, sortOrder>>
vars == <<isDrawing, currentPath, drawings, undoStack, redoStack, currentTool,
          strokeColor, strokeWidth, roughness, startX, startY, currentX, currentY,
          notes, shared, open, currentNoteId, canvasWidth, canvasHeight, lastError,
          now, editorContent, lastSavedContent, debouncedSave, editorDebouncedSave,
          searchQuery, selectedTags, sortBy, sortOrder, autoSaveTimeout, localStorage, editorState,
          editorInstance,
          hPre, hLast, hActs, hNotes, hTyped, hInvoked, hMount>>

\* what the handlers of the canvas leave alone
hostVars == <<open, currentNoteId, canvasWidth, canvasHeight, lastError, now,
              editorContent, lastSavedContent, debouncedSave, editorDebouncedSave,
              searchQuery, selectedTags, sortBy, sortOrder, localStorage, editorState, editorInstance,
              hNotes, hTyped, hInvoked, hMount>>

----------------------------------------------------------------------------
(* Bounds of the exploration *)

MaxHistory == 2     \* Spec, SpecTools: a gesture or clear-all starts while the undoStack is shorter
MaxShapes == 2      \* Spec, SpecTools: a gesture ends while the shape list is shorter
MaxPath == 2        \* points a pen gesture accumulates
MaxRedo == 1        \* Spec, SpecTaps, SpecTools: undo is pressed while the redoStack is shorter
MaxGestures == 2    \* SpecGesture: gestures in a run
MaxVaried == 2      \* SpecRow: actions before the tool is settled
MaxRow == 60        \* SpecRow, SpecTaps: committed actions in a row
MaxSaves == 2       \* SpecSession, SpecLoad: snapshots in the note store
MaxErasePath == 3   \* SpecErase: points a pen gesture accumulates
MaxEraseHistory == 3    \* SpecErase: a gesture or clear-all starts while the
                        \* undoStack is shorter
MaxElapsed == 1000  \* SpecAutoSave: milliseconds that pass
MaxVersion == 2     \* SpecAutoSave: texts typed into a note
MaxNotes == 3       \* SpecList: notes in the store
MaxListElapsed == 100   \* SpecList: milliseconds that pass
MaxDragPath == 3     \* SpecDrag: points a pen gesture accumulates
MaxDragShapes == 3   \* SpecDrag: a gesture ends while the shape list is shorter
MaxDragHistory == 4  \* SpecDrag: a gesture starts while the undoStack is shorter
MaxShapeList == 2     \* SpecShape: a gesture ends while the shape list is shorter
MaxShapeHistory == 3  \* SpecShape: a gesture starts while the undoStack is shorter
MaxStoreElapsed == 750    \* SpecStore: milliseconds that pass
MaxStackRedo == 51        \* SpecStacks: undo is pressed while the redoStack is shorter
MaxHistoryVaried == 2     \* SpecHistory: the other document is added while historyIndex is smaller
MaxStoreNotes == 2        \* SpecStore: a note is created while the store holds fewer

(* Program constants *)

MaxUndo == 50           \* saveState: if (undoStack.length > 50)
MinShapeSize == 5       \* createShape: if (width < 5 && height < 5)
EraseFactor == 3        \* erase: strokeWidth * 3
DefaultStrokeWidth == 2 \* let strokeWidth = 2
DefaultRoughness == 10  \* let roughness = 1
DefaultWidth == 800     \* export let width = 800
DefaultHeight == 600    \* export let height = 600
HtmlCanvasWidth == 300  \* the width of a canvas element that was given none
HtmlCanvasHeight == 150 \* the height of a canvas element that was given none
AutoSaveDelay == 500    \* debounceAutoSave(..., 500)
AUTO_SAVE_DELAY == 500  \* notesStore.js: const AUTO_SAVE_DELAY = 500

fillColor == "transparent"

tools == <<"pen", "rectangle", "circle", "line", "eraser">>
ToolIds == {tools[i] : i \in 1..Len(tools)}
ShapeTools == {"rectangle", "circle", "line"}
RowTools == {"pen", "rectangle", "eraser"}

colors == {"#000000", "#dc2626"}
StrokeWidths == {2, 4}
Roughnesses == {10, 0}

Pt(x, y) == [x |-> x, y |-> y]
P1 == Pt(10, 10)
P2 == Pt(12, 12)
P3 == Pt(60, 60)
P4 == Pt(100, 100)
Pts == {P1, P2, P3}
Starts == {P1}
Moves == {P2, P3}
GridX == {5, 6, 10, 14, 15}
GridY == {10, 14, 15}

\* SpecErase: points on one line, 6, 12 and 19 pixels from the first and 7 pixels
\* between the last two; the eraser's radius is 6 at stroke width 2 and 12 at 4
E1 == Pt(10, 10)
E2 == Pt(16, 10)
E3 == Pt(22, 10)
E4 == Pt(29, 10)
ErasePts == {E1, E2, E3, E4}

\* SpecSession: the width and height props a host mounts the canvas with
CanvasSizes == {<<DefaultWidth, DefaultHeight>>, <<400, 300>>}

\* SpecAutoSave: the time between two events
Gaps == {100, 400}

Abs(n) == IF n < 0 THEN 0 - n ELSE n
Min(a, b) == IF a <= b THEN a ELSE b

----------------------------------------------------------------------------
(* JSON.stringify and JSON.parse of a shape list *)

ShapeKeys(type) ==
    CASE type = "path" -> <<"type", "path", "strokeColor", "strokeWidth", "roughness">>
      [] type = "rectangle" -> <<"type", "x", "y", "width", "height",
                                 "strokeColor", "strokeWidth", "fillColor", "roughness">>
      [] type = "circle" -> <<"type", "x", "y", "radius",
                              "strokeColor", "strokeWidth", "fillColor", "roughness">>
      [] type = "line" -> <<"type", "x1", "y1", "x2", "y2",
                            "strokeColor", "strokeWidth", "roughness">>

StringifyPoint(p) == << <<"x", p.x>>, <<"y", p.y>> >>

ParsePoint(t) == [k \in {t[i][1] : i \in 1..Len(t)} |->
                    t[CHOOSE i \in 1..Len(t) : t[i][1] = k][2]]

StringifyShape(sh) ==
    LET keys == ShapeKeys(sh.type) IN
    [i \in 1..Len(keys) |->
        IF keys[i] = "path"
        THEN <<"path", [j \in 1..Len(sh.path) |-> StringifyPoint(sh.path[j])]>>
        ELSE <<keys[i], sh[keys[i]]>>]

ParseShape(t) ==
    [k \in {t[i][1] : i \in 1..Len(t)} |->
        LET v == t[CHOOSE i \in 1..Len(t) : t[i][1] = k][2] IN
        IF k = "path" THEN [j \in 1..Len(v) |-> ParsePoint(v[j])] ELSE v]

JSONstringify(list) == [i \in 1..Len(list) |-> StringifyShape(list[i])]

JSONparse(text) == [i \in 1..Len(text) |-> ParseShape(text[i])]

\* JSON.stringify of a snapshot {drawings, width, height, timestamp} (a key
\* that the object lacks is not written), and JSON.parse of the text
SnapshotKeys == <<"drawings", "width", "height", "timestamp">>

StringifySnapshot(snapshot) ==
    LET keys == SelectSeq(SnapshotKeys, LAMBDA k : k \in DOMAIN snapshot)
    IN [i \in 1..Len(keys) |->
            IF keys[i] = "drawings"
            THEN <<"drawings", JSONstringify(snapshot.drawings)>>
            ELSE <<keys[i], snapshot[keys[i]]>>]

ParseSnapshot(text) ==
    [k \in {text[i][1] : i \in 1..Len(text)} |->
        LET v == text[CHOOSE i \in 1..Len(text) : text[i][1] = k][2]
        IN IF k = "drawings" THEN JSONparse(v) ELSE v]

\* JSON.stringify of the notes list: every note with its properties in the
\* order createNote gives them, and JSON.parse of the text
NoteKeys == <<"id", "title", "content", "tags", "createdAt", "updatedAt",
              "isPinned", "drawings">>

StringifyNotes(store) ==
    [n \in 1..Len(store) |->
        [i \in 1..Len(NoteKeys) |->
            IF NoteKeys[i] = "drawings"
            THEN <<"drawings", [d \in 1..Len(store[n].drawings) |->
                                    StringifySnapshot(store[n].drawings[d])]>>
            ELSE <<NoteKeys[i], store[n][NoteKeys[i]]>>]]

ParseNotes(text) ==
    [n \in 1..Len(text) |->
        [k \in {text[n][i][1] : i \in 1..Len(text[n])} |->
            LET v == text[n][CHOOSE i \in 1..Len(text[n]) : text[n][i][1] = k][2]
            IN IF k = "drawings" THEN [d \in 1..Len(v) |-> ParseSnapshot(v[d])] ELSE v]]

----------------------------------------------------------------------------
(* The component's state as one record *)

\* the component's script variables, with the note store and the heap relation
\* through which the live objects reach it
State ==
    [isDrawing |-> isDrawing, currentPath |-> currentPath, drawings |-> drawings,
     undoStack |-> undoStack, redoStack |-> redoStack, currentTool |-> currentTool,
     strokeColor |-> strokeColor, strokeWidth |-> strokeWidth, roughness |-> roughness,
     startX |-> startX, startY |-> startY, currentX |-> currentX, currentY |-> currentY,
     notes |-> notes, shared |-> shared, autoSaveTimeout |-> autoSaveTimeout]

\* Date.now() when the application starts
StartTime == 1000

\* let autoSaveTimeout = null
NoTimeout == -1

\* editorStore.js: const MAX_HISTORY_SIZE = 50
MAX_HISTORY_SIZE == 50

\* editorStore.js: DEFAULT_STATE, its history and historyIndex
DEFAULT_STATE == [history |-> <<>>, historyIndex |-> -1]

\* editorStore.js: const editorInstance = writable(null)
NoEditor == <<>>

\* saveToStorage that leaves a pending timer as it is
saveToStorage_KeepsPending(r, time) ==
    IF r.autoSaveTimeout # NoTimeout
        THEN r
        ELSE [r EXCEPT !.autoSaveTimeout = time + AUTO_SAVE_DELAY]

\* saveToStorage: clearTimeout(autoSaveTimeout); autoSaveTimeout = setTimeout(...,
\* AUTO_SAVE_DELAY), in a browser; r is a record with the field autoSaveTimeout
saveToStorage(r, time) == [r EXCEPT !.autoSaveTimeout = time + AUTO_SAVE_DELAY]

\* let lastSavedContent = ''
EmptyText == <<0, 0>>

\* strings are sequences of UTF-16 code units: "B", "a", "x"
TitleB == <<66>>
TitleA == <<97>>
TagX == <<120>>
\* createNote(title = 'Untitled Note', ...)
UntitledNote == <<85, 110, 116, 105, 116, 108, 101, 100, 32, 78, 111, 116, 101>>

\* the notes the store was initialised with: two notes without tags or drawings,
\* titled "a" and "B", created when the application started
NoteIds == {1, 2}
InitNotes ==
    [n \in NoteIds |->
        [id |-> n, title |-> IF n = 1 THEN TitleA ELSE TitleB, content |-> <<n, 0>>,
         tags |-> <<>>, createdAt |-> StartTime, updatedAt |-> StartTime,
         isPinned |-> FALSE, drawings |-> <<>>]]

\* no stored snapshot shares an object with the live shape list
Unshared(store) ==
    [n \in DOMAIN store |->
        [d \in DOMAIN store[n].drawings |->
            [array |-> FALSE,
             shapes |-> [k \in DOMAIN store[n].drawings[d].drawings |-> 0]]]]

InitState ==
    [isDrawing |-> FALSE, currentPath |-> <<>>, drawings |-> <<>>,
     undoStack |-> <<>>, redoStack |-> <<>>, currentTool |-> "pen",
     strokeColor |-> "#000000", strokeWidth |-> DefaultStrokeWidth,
     roughness |-> DefaultRoughness,
     startX |-> 0, startY |-> 0, currentX |-> 0, currentY |-> 0,
     notes |-> InitNotes, shared |-> Unshared(InitNotes), autoSaveTimeout |-> NoTimeout]

History(s) == [drawings |-> s.drawings, undoStack |-> s.undoStack,
               redoStack |-> s.redoStack]

----------------------------------------------------------------------------
(* Geometry and the eraser *)

\* Math.sqrt(a) <= Math.sqrt(b) + r for integers a, b, r >= 0
SqrtLeqSqrtPlus(a, b, r) ==
    LET d == a - b - r * r IN
    d <= 0 \/ d * d <= 4 * r * r * b

\* isPointInShape whose bounds of a Rectangle are exclusive
isPointInShape_StrictBox(x, y, shape, radius) ==
    CASE shape.type = "rectangle" ->
            /\ x > shape.x - radius /\ x < shape.x + shape.width + radius
            /\ y > shape.y - radius /\ y < shape.y + shape.height + radius
      [] shape.type = "circle" ->
            LET dist2 == (x - shape.x) * (x - shape.x) + (y - shape.y) * (y - shape.y)
            IN SqrtLeqSqrtPlus(4 * dist2, shape.radius, 2 * radius)
      [] shape.type = "line" ->
            LET len2 == (shape.x2 - shape.x1) * (shape.x2 - shape.x1)
                        + (shape.y2 - shape.y1) * (shape.y2 - shape.y1)
                num == Abs((shape.y2 - shape.y1) * x - (shape.x2 - shape.x1) * y
                           + shape.x2 * shape.y1 - shape.y2 * shape.x1)
            IN len2 > 0 /\ num * num <= radius * radius * len2
      [] OTHER -> FALSE

\* isPointInShape that tests the distance to the segment between the two
\* endpoints of a Line, not to the infinite line through them
isPointInShape_ClampedLine(x, y, shape, radius) ==
    CASE shape.type = "rectangle" ->
            /\ x >= shape.x - radius /\ x <= shape.x + shape.width + radius
            /\ y >= shape.y - radius /\ y <= shape.y + shape.height + radius
      [] shape.type = "circle" ->
            LET dist2 == (x - shape.x) * (x - shape.x) + (y - shape.y) * (y - shape.y)
            IN SqrtLeqSqrtPlus(4 * dist2, shape.radius, 2 * radius)
      [] shape.type = "line" ->
            LET dx == shape.x2 - shape.x1
                dy == shape.y2 - shape.y1
                len2 == dx * dx + dy * dy
                num == Abs(dy * x - dx * y + shape.x2 * shape.y1 - shape.y2 * shape.x1)
                along == (x - shape.x1) * dx + (y - shape.y1) * dy
                d1 == (x - shape.x1) * (x - shape.x1) + (y - shape.y1) * (y - shape.y1)
                d2 == (x - shape.x2) * (x - shape.x2) + (y - shape.y2) * (y - shape.y2)
            IN /\ len2 > 0
               /\ IF along < 0 THEN d1 <= radius * radius
                  ELSE IF along > len2 THEN d2 <= radius * radius
                  ELSE num * num <= radius * radius * len2
      [] OTHER -> FALSE

isPointInShape(x, y, shape, radius) ==
    CASE shape.type = "rectangle" ->
            /\ x >= shape.x - radius /\ x <= shape.x + shape.width + radius
            /\ y >= shape.y - radius /\ y <= shape.y + shape.height + radius
      [] shape.type = "circle" ->
            \* dist <= shape.radius + radius, with shape.radius = sqrt(radicand) / 2
            LET dist2 == (x - shape.x) * (x - shape.x) + (y - shape.y) * (y - shape.y)
            IN SqrtLeqSqrtPlus(4 * dist2, shape.radius, 2 * radius)
      [] shape.type = "line" ->
            LET len2 == (shape.x2 - shape.x1) * (shape.x2 - shape.x1)
                        + (shape.y2 - shape.y1) * (shape.y2 - shape.y1)
                num == Abs((shape.y2 - shape.y1) * x - (shape.x2 - shape.x1) * y
                           + shape.x2 * shape.y1 - shape.y2 * shape.x1)
            \* a zero-length line divides 0 by 0: NaN <= radius is false
            IN len2 > 0 /\ num * num <= radius * radius * len2
      [] OTHER -> FALSE

\* the filter with dist >= eraseRadius: a point on the circle stays
FarPoints_KeepsBoundary(path, x, y, eraseRadius) ==
    LET Far(point) == (point.x - x) * (point.x - x) + (point.y - y) * (point.y - y)
                      >= eraseRadius * eraseRadius
        F[i \in 0..Len(path)] ==
            IF i = 0 THEN <<>>
            ELSE IF Far(path[i]) THEN Append(F[i - 1], path[i]) ELSE F[i - 1]
    IN F[Len(path)]

\* drawing.path.filter(point => dist > eraseRadius)
FarPoints(path, x, y, eraseRadius) ==
    LET Far(point) == (point.x - x) * (point.x - x) + (point.y - y) * (point.y - y)
                      > eraseRadius * eraseRadius
        F[i \in 0..Len(path)] ==
            IF i = 0 THEN <<>>
            ELSE IF Far(path[i]) THEN Append(F[i - 1], path[i]) ELSE F[i - 1]
    IN F[Len(path)]

\* erase whose history entries share the shape objects of the live list: the
\* points it removes from a live path are gone from the entries as well
erase_SharedHistory(s, x, y) ==
    LET eraseRadius == s.strokeWidth * EraseFactor
        Erased(drawing) ==
            IF drawing.type = "path"
            THEN [drawing EXCEPT !.path = FarPoints(drawing.path, x, y, eraseRadius)]
            ELSE drawing
        Keep(drawing) ==
            IF drawing.type = "path"
            THEN Len(Erased(drawing).path) > 1
            ELSE ~isPointInShape(x, y, drawing, eraseRadius)
        Filtered(list) == LET kept == SelectSeq(list, Keep)
                          IN [i \in 1..Len(kept) |-> Erased(kept[i])]
        Mutated(text) == JSONstringify([i \in 1..Len(text) |-> Erased(ParseShape(text[i]))])
    IN [s EXCEPT !.drawings = Filtered(s.drawings),
                 !.undoStack = [i \in 1..Len(s.undoStack) |-> Mutated(s.undoStack[i])],
                 !.redoStack = [i \in 1..Len(s.redoStack) |-> Mutated(s.redoStack[i])],
                 !.shared = Unshared(s.notes)]

\* drawings.filter(drawing => ...): a path loses the points within the radius and
\* stays when more than one is left; another shape stays when it is not hit
erase(s, x, y) ==
    LET eraseRadius == s.strokeWidth * EraseFactor
        list == s.drawings
        Erased(drawing) ==
            IF drawing.type = "path"
            THEN [drawing EXCEPT !.path = FarPoints(drawing.path, x, y, eraseRadius)]
            ELSE drawing
        Keep(drawing) ==
            IF drawing.type = "path"
            THEN Len(Erased(drawing).path) > 1
            ELSE ~isPointInShape(x, y, drawing, eraseRadius)
        F[i \in 0..Len(list)] ==
            IF i = 0 THEN <<>>
            ELSE IF Keep(list[i]) THEN Append(F[i - 1], Erased(list[i])) ELSE F[i - 1]
        \* drawing.path = ... assigns to the shape object, whoever else holds it
        StoredShape(sh, i) == IF i > 0 THEN Erased(list[i]) ELSE sh
        \* the filtered list is a new array of the surviving objects
        NewIndex(i) == IF i > 0 /\ Keep(list[i]) THEN Len(F[i]) ELSE 0
    IN [s EXCEPT !.drawings = F[Len(list)],
                 !.notes = [n \in DOMAIN s.notes |->
                    [s.notes[n] EXCEPT !.drawings = [d \in DOMAIN s.notes[n].drawings |->
                        [s.notes[n].drawings[d] EXCEPT !.drawings =
                            [k \in DOMAIN s.notes[n].drawings[d].drawings |->
                                StoredShape(s.notes[n].drawings[d].drawings[k],
                                            s.shared[n][d].shapes[k])]]]]],
                 !.shared = [n \in DOMAIN s.shared |-> [d \in DOMAIN s.shared[n] |->
                    [array |-> FALSE,
                     shapes |-> [k \in DOMAIN s.shared[n][d].shapes |->
                                    NewIndex(s.shared[n][d].shapes[k])]]]]]

\* push that puts the shape in front of the list (unshift)
push_Prepends(s, shape) ==
    [s EXCEPT !.drawings = <<shape>> \o s.drawings, !.shared = Unshared(s.notes)]

\* drawings.push(shape): the array grows in place, for everyone who holds it
push(s, shape) ==
    LET grown(n, d) == s.shared[n][d].array
    IN [s EXCEPT !.drawings = Append(s.drawings, shape),
                 !.notes = [n \in DOMAIN s.notes |->
                    [s.notes[n] EXCEPT !.drawings = [d \in DOMAIN s.notes[n].drawings |->
                        IF grown(n, d)
                        THEN [s.notes[n].drawings[d] EXCEPT
                                !.drawings = Append(s.notes[n].drawings[d].drawings, shape)]
                        ELSE s.notes[n].drawings[d]]]],
                 !.shared = [n \in DOMAIN s.shared |-> [d \in DOMAIN s.shared[n] |->
                        IF grown(n, d)
                        THEN [s.shared[n][d] EXCEPT
                                !.shapes = Append(s.shared[n][d].shapes, Len(s.drawings) + 1)]
                        ELSE s.shared[n][d]]]]

\* drawings = <a new array of new objects>
assign(s, list) == [s EXCEPT !.drawings = list, !.shared = Unshared(s.notes)]

----------------------------------------------------------------------------
(* Shape construction *)

NoShape == [type |-> "null"]

\* createShape without the small-gesture test
createShape_NoThreshold(s) ==
    LET width == Abs(s.currentX - s.startX)
        height == Abs(s.currentY - s.startY)
        x == Min(s.startX, s.currentX)
        y == Min(s.startY, s.currentY)
    IN CASE s.currentTool = "rectangle" ->
                [type |-> "rectangle", x |-> x, y |-> y,
                 width |-> width, height |-> height,
                 strokeColor |-> s.strokeColor, strokeWidth |-> s.strokeWidth,
                 fillColor |-> fillColor, roughness |-> s.roughness]
         [] s.currentTool = "circle" ->
                [type |-> "circle", x |-> s.startX, y |-> s.startY,
                 radius |-> width * width + height * height,
                 strokeColor |-> s.strokeColor, strokeWidth |-> s.strokeWidth,
                 fillColor |-> fillColor, roughness |-> s.roughness]
         [] s.currentTool = "line" ->
                [type |-> "line", x1 |-> s.startX, y1 |-> s.startY,
                 x2 |-> s.currentX, y2 |-> s.currentY,
                 strokeColor |-> s.strokeColor, strokeWidth |-> s.strokeWidth,
                 roughness |-> s.roughness]
         [] OTHER -> NoShape

\* createShape whose Rectangle starts at the anchor and has the signed
\* displacements as width and height
createShape_SignedBox(s) ==
    LET width == Abs(s.currentX - s.startX)
        height == Abs(s.currentY - s.startY)
    IN IF width < MinShapeSize /\ height < MinShapeSize THEN NoShape
       ELSE CASE s.currentTool = "rectangle" ->
                    [type |-> "rectangle", x |-> s.startX, y |-> s.startY,
                     width |-> s.currentX - s.startX, height |-> s.currentY - s.startY,
                     strokeColor |-> s.strokeColor, strokeWidth |-> s.strokeWidth,
                     fillColor |-> fillColor, roughness |-> s.roughness]
              [] s.currentTool = "circle" ->
                    [type |-> "circle", x |-> s.startX, y |-> s.startY,
                     radius |-> width * width + height * height,
                     strokeColor |-> s.strokeColor, strokeWidth |-> s.strokeWidth,
                     fillColor |-> fillColor, roughness |-> s.roughness]
              [] s.currentTool = "line" ->
                    [type |-> "line", x1 |-> s.startX, y1 |-> s.startY,
                     x2 |-> s.currentX, y2 |-> s.currentY,
                     strokeColor |-> s.strokeColor, strokeWidth |-> s.strokeWidth,
                     roughness |-> s.roughness]
              [] OTHER -> NoShape

\* createShape whose Circle is centred at the midpoint of the anchor and the
\* end point (twice the centre is stored exactly when the sum is even)
createShape_MidpointCircle(s) ==
    LET width == Abs(s.currentX - s.startX)
        height == Abs(s.currentY - s.startY)
        x == Min(s.startX, s.currentX)
        y == Min(s.startY, s.currentY)
    IN IF width < MinShapeSize /\ height < MinShapeSize THEN NoShape
       ELSE CASE s.currentTool = "rectangle" ->
                    [type |-> "rectangle", x |-> x, y |-> y,
                     width |-> width, height |-> height,
                     strokeColor |-> s.strokeColor, strokeWidth |-> s.strokeWidth,
                     fillColor |-> fillColor, roughness |-> s.roughness]
              [] s.currentTool = "circle" ->
                    [type |-> "circle", x |-> (s.startX + s.currentX) \div 2,
                     y |-> (s.startY + s.currentY) \div 2,
                     radius |-> width * width + height * height,
                     strokeColor |-> s.strokeColor, strokeWidth |-> s.strokeWidth,
                     fillColor |-> fillColor, roughness |-> s.roughness]
              [] s.currentTool = "line" ->
                    [type |-> "line", x1 |-> s.startX, y1 |-> s.startY,
                     x2 |-> s.currentX, y2 |-> s.currentY,
                     strokeColor |-> s.strokeColor, strokeWidth |-> s.strokeWidth,
                     roughness |-> s.roughness]
              [] OTHER -> NoShape

createShape(s) ==
    LET width == Abs(s.currentX - s.startX)
        height == Abs(s.currentY - s.startY)
        x == Min(s.startX, s.currentX)
        y == Min(s.startY, s.currentY)
    IN IF width < MinShapeSize /\ height < MinShapeSize THEN NoShape
       ELSE CASE s.currentTool = "rectangle" ->
                    [type |-> "rectangle", x |-> x, y |-> y,
                     width |-> width, height |-> height,
                     strokeColor |-> s.strokeColor, strokeWidth |-> s.strokeWidth,
                     fillColor |-> fillColor, roughness |-> s.roughness]
              [] s.currentTool = "circle" ->
                    [type |-> "circle", x |-> s.startX, y |-> s.startY,
                     radius |-> width * width + height * height,
                     strokeColor |-> s.strokeColor, strokeWidth |-> s.strokeWidth,
                     fillColor |-> fillColor, roughness |-> s.roughness]
              [] s.currentTool = "line" ->
                    [type |-> "line", x1 |-> s.startX, y1 |-> s.startY,
                     x2 |-> s.currentX, y2 |-> s.currentY,
                     strokeColor |-> s.strokeColor, strokeWidth |-> s.strokeWidth,
                     roughness |-> s.roughness]
              [] OTHER -> NoShape

----------------------------------------------------------------------------
(* History manager *)

\* saveState evicting the newest entry (pop) instead of the oldest (shift)
saveState_EvictsNewest(s) ==
    LET pushed == Append(s.undoStack, JSONstringify(s.drawings))
    IN [s EXCEPT !.undoStack = IF Len(pushed) > MaxUndo
                               THEN SubSeq(pushed, 1, Len(pushed) - 1) ELSE pushed]

saveState(s) ==
    LET pushed == Append(s.undoStack, JSONstringify(s.drawings))
    IN [s EXCEPT !.undoStack = IF Len(pushed) > MaxUndo THEN Tail(pushed) ELSE pushed]

clearRedoStack(s) == [s EXCEPT !.redoStack = <<>>]

\* undo that moves the entries but leaves the shape list as it is
undo_NoRestore(s) ==
    IF Len(s.undoStack) = 0 THEN s
    ELSE [s EXCEPT !.redoStack = Append(s.redoStack, JSONstringify(s.drawings)),
                   !.undoStack = SubSeq(s.undoStack, 1, Len(s.undoStack) - 1)]

\* undo that does not push the current state onto the redoStack
undo_NoRedoPush(s) ==
    IF Len(s.undoStack) = 0 THEN s
    ELSE assign([s EXCEPT !.undoStack = SubSeq(s.undoStack, 1, Len(s.undoStack) - 1)],
                JSONparse(s.undoStack[Len(s.undoStack)]))

undo(s) ==
    IF Len(s.undoStack) = 0 THEN s
    ELSE assign([s EXCEPT !.redoStack = Append(s.redoStack, JSONstringify(s.drawings)),
                          !.undoStack = SubSeq(s.undoStack, 1, Len(s.undoStack) - 1)],
                JSONparse(s.undoStack[Len(s.undoStack)]))

\* redo that moves the entries but leaves the shape list as it is
redo_NoRestore(s) ==
    IF Len(s.redoStack) = 0 THEN s
    ELSE [s EXCEPT !.undoStack = Append(s.undoStack, JSONstringify(s.drawings)),
                   !.redoStack = SubSeq(s.redoStack, 1, Len(s.redoStack) - 1)]

\* redo that pushes onto the undoStack before it tests the redoStack
redo_PushesWhenEmpty(s) ==
    IF Len(s.redoStack) = 0
    THEN [s EXCEPT !.undoStack = Append(s.undoStack, JSONstringify(s.drawings))]
    ELSE assign([s EXCEPT !.undoStack = Append(s.undoStack, JSONstringify(s.drawings)),
                          !.redoStack = SubSeq(s.redoStack, 1, Len(s.redoStack) - 1)],
                JSONparse(s.redoStack[Len(s.redoStack)]))

redo(s) ==
    IF Len(s.redoStack) = 0 THEN s
    ELSE assign([s EXCEPT !.undoStack = Append(s.undoStack, JSONstringify(s.drawings)),
                          !.redoStack = SubSeq(s.redoStack, 1, Len(s.redoStack) - 1)],
                JSONparse(s.redoStack[Len(s.redoStack)]))

\* clearDrawing that empties the list before it takes the snapshot
clearDrawing_SnapshotAfter(s) == clearRedoStack(saveState(assign(s, <<>>)))

clearDrawing(s) == clearRedoStack(assign(saveState(s), <<>>))

----------------------------------------------------------------------------
(* Gesture handlers *)

startDrawing(s, pos) ==
    LET s1 == [s EXCEPT !.isDrawing = TRUE,
                        !.startX = pos.x, !.startY = pos.y,
                        !.currentX = pos.x, !.currentY = pos.y]
        s2 == IF s1.currentTool = "pen"
              THEN [s1 EXCEPT !.currentPath = <<Pt(pos.x, pos.y)>>]
              ELSE IF s1.currentTool = "eraser" THEN erase(s1, pos.x, pos.y)
              ELSE s1
    IN saveState(s2)

\* draw that erases at the sample whatever the tool is
draw_ErasesAlways(s, pos) ==
    IF ~s.isDrawing THEN s
    ELSE LET s1 == [s EXCEPT !.currentX = pos.x, !.currentY = pos.y]
         IN IF s1.currentTool = "pen"
            THEN erase([s1 EXCEPT !.currentPath = Append(s1.currentPath, Pt(pos.x, pos.y))],
                       pos.x, pos.y)
            ELSE erase(s1, pos.x, pos.y)

\* draw without the test of isDrawing
draw_NoIdleGuard(s, pos) ==
    LET s1 == [s EXCEPT !.currentX = pos.x, !.currentY = pos.y]
    IN IF s1.currentTool = "pen"
       THEN [s1 EXCEPT !.currentPath = Append(s1.currentPath, Pt(pos.x, pos.y))]
       ELSE IF s1.currentTool = "eraser" THEN erase(s1, pos.x, pos.y)
       ELSE s1

draw(s, pos) ==
    IF ~s.isDrawing THEN s
    ELSE LET s1 == [s EXCEPT !.currentX = pos.x, !.currentY = pos.y]
         IN IF s1.currentTool = "pen"
            THEN [s1 EXCEPT !.currentPath = Append(s1.currentPath, Pt(pos.x, pos.y))]
            ELSE IF s1.currentTool = "eraser" THEN erase(s1, pos.x, pos.y)
            ELSE s1

\* stopDrawing without its final clearRedoStack()
stopDrawing_KeepsRedo(s) ==
    IF ~s.isDrawing THEN s
    ELSE LET s1 == [s EXCEPT !.isDrawing = FALSE]
             shape == createShape(s1)
             s2 == IF s1.currentTool = "pen" /\ Len(s1.currentPath) > 1
                   THEN push(s1, [type |-> "path", path |-> s1.currentPath,
                                  strokeColor |-> s1.strokeColor,
                                  strokeWidth |-> s1.strokeWidth,
                                  roughness |-> s1.roughness])
                   ELSE IF s1.currentTool # "pen" /\ s1.currentTool # "eraser"
                           /\ shape # NoShape
                   THEN push(s1, shape)
                   ELSE s1
         IN [s2 EXCEPT !.currentPath = <<>>]

\* stopDrawing that commits a pen path of a single point
stopDrawing_CommitsTap(s) ==
    IF ~s.isDrawing THEN s
    ELSE LET s1 == [s EXCEPT !.isDrawing = FALSE]
             shape == createShape(s1)
             s2 == IF s1.currentTool = "pen" /\ Len(s1.currentPath) > 0
                   THEN push(s1, [type |-> "path", path |-> s1.currentPath,
                                  strokeColor |-> s1.strokeColor,
                                  strokeWidth |-> s1.strokeWidth,
                                  roughness |-> s1.roughness])
                   ELSE IF s1.currentTool # "pen" /\ s1.currentTool # "eraser"
                           /\ shape # NoShape
                   THEN push(s1, shape)
                   ELSE s1
         IN clearRedoStack([s2 EXCEPT !.currentPath = <<>>])

\* stopDrawing that applies the small-gesture test to the pen as well
stopDrawing_PenThreshold(s) ==
    IF ~s.isDrawing THEN s
    ELSE LET s1 == [s EXCEPT !.isDrawing = FALSE]
             shape == createShape(s1)
             small == /\ Abs(s1.currentX - s1.startX) < MinShapeSize
                      /\ Abs(s1.currentY - s1.startY) < MinShapeSize
             s2 == IF s1.currentTool = "pen" /\ Len(s1.currentPath) > 1 /\ ~small
                   THEN push(s1, [type |-> "path", path |-> s1.currentPath,
                                  strokeColor |-> s1.strokeColor,
                                  strokeWidth |-> s1.strokeWidth,
                                  roughness |-> s1.roughness])
                   ELSE IF s1.currentTool # "pen" /\ s1.currentTool # "eraser"
                           /\ shape # NoShape
                   THEN push(s1, shape)
                   ELSE s1
         IN clearRedoStack([s2 EXCEPT !.currentPath = <<>>])

stopDrawing(s) ==
    IF ~s.isDrawing THEN s
    ELSE LET s1 == [s EXCEPT !.isDrawing = FALSE]
             shape == createShape(s1)
             s2 == IF s1.currentTool = "pen" /\ Len(s1.currentPath) > 1
                   THEN push(s1, [type |-> "path", path |-> s1.currentPath,
                                  strokeColor |-> s1.strokeColor,
                                  strokeWidth |-> s1.strokeWidth,
                                  roughness |-> s1.roughness])
                   ELSE IF s1.currentTool # "pen" /\ s1.currentTool # "eraser"
                           /\ shape # NoShape
                   THEN push(s1, shape)
                   ELSE s1
         IN clearRedoStack([s2 EXCEPT !.currentPath = <<>>])

selectTool(s, tool) == [s EXCEPT !.currentTool = tool]

\* selectColor that also recolours the committed shapes
selectColor_Recolours(s, color) ==
    [s EXCEPT !.strokeColor = color,
              !.drawings = [i \in DOMAIN s.drawings |->
                              [s.drawings[i] EXCEPT !.strokeColor = color]]]

selectColor(s, color) == [s EXCEPT !.strokeColor = color]

----------------------------------------------------------------------------
(* Session API and the note store *)

\* $currentNote: $notes.find(note => note.id === $currentNoteId) || null
HasNote(store, id) == \E n \in DOMAIN store : store[n].id = id

\* JavaScript null
Null == [null |-> TRUE]

\* a snapshot object without a drawings property
NoShapeArray == [width |-> DefaultWidth, height |-> DefaultHeight, timestamp |-> 0]

\* a snapshot object whose drawings array holds null instead of a shape
NullShapeArray ==
    [drawings |-> <<NoShape>>, width |-> DefaultWidth, height |-> DefaultHeight,
     timestamp |-> 0]

\* drawShape reads shape.strokeColor and shape.type of every element
Renderable(list) == \A i \in DOMAIN list : list[i] # NoShape

\* const drawingData = { drawings, width: canvas.width, height: canvas.height,
\*                       timestamp: Date.now() }
drawingDataOf(s, width, height, time) ==
    [drawings |-> s.drawings, width |-> width, height |-> height, timestamp |-> time]

\* the live array and the live shapes themselves, as held by a new snapshot
LiveSharing(s) == [array |-> TRUE, shapes |-> [k \in DOMAIN s.drawings |-> k]]

\* addDrawing that puts the new snapshot in front of the note's drawings
addDrawing_Prepends(s, noteId, drawingData, sharing, time) ==
    saveToStorage(
        [s EXCEPT !.notes = [n \in DOMAIN s.notes |->
                    IF s.notes[n].id = noteId
                    THEN [s.notes[n] EXCEPT !.drawings = <<drawingData>> \o s.notes[n].drawings,
                                            !.updatedAt = time]
                    ELSE s.notes[n]],
                  !.shared = [n \in DOMAIN s.shared |->
                    IF s.notes[n].id = noteId
                    THEN <<sharing>> \o s.shared[n]
                    ELSE s.shared[n]]],
        time)

\* notesActions.addDrawing: drawings: [...(note.drawings || []), drawingData],
\* updatedAt: Date.now()
addDrawing(s, noteId, drawingData, sharing, time) ==
    saveToStorage(
        [s EXCEPT !.notes = [n \in DOMAIN s.notes |->
                    IF s.notes[n].id = noteId
                    THEN [s.notes[n] EXCEPT !.drawings = Append(s.notes[n].drawings, drawingData),
                                            !.updatedAt = time]
                    ELSE s.notes[n]],
                  !.shared = [n \in DOMAIN s.shared |->
                    IF s.notes[n].id = noteId
                    THEN Append(s.shared[n], sharing)
                    ELSE s.shared[n]]],
        time)

\* saveDrawing and MainEditor's handleDrawingSave, which receives its event
handleDrawingSave(s, noteId, width, height, time) ==
    IF HasNote(s.notes, noteId)
    THEN addDrawing(s, noteId, drawingDataOf(s, width, height, time), LiveSharing(s), time)
    ELSE s

\* loadDrawing that ignores the snapshot
loadDrawing_Ignores(s, drawingData, sharing) == s

\* loadDrawing: if (drawingData && drawingData.drawings) drawings = drawingData.drawings
\* ("sharing" is where the store holds the snapshot object, <<>> when it does not)
loadDrawing(s, drawingData, sharing) ==
    IF drawingData # Null /\ "drawings" \in DOMAIN drawingData
    THEN [s EXCEPT !.drawings = drawingData.drawings,
                   !.shared = IF sharing = <<>> THEN Unshared(s.notes)
                              ELSE [Unshared(s.notes) EXCEPT ![sharing[1]][sharing[2]] =
                                        [array |-> TRUE,
                                         shapes |-> [k \in DOMAIN drawingData.drawings |-> k]]]]
    ELSE s

\* a new component instance: the script's initialisers, facing the same store
NewInstance(s) ==
    [InitState EXCEPT !.notes = s.notes, !.shared = Unshared(s.notes),
                      !.autoSaveTimeout = s.autoSaveTimeout]

\* onMount: if (canvas) { ...; if (initialDrawing) loadDrawing(initialDrawing); ... }
onMount(s, hasCanvas, initialDrawing, sharing) ==
    IF hasCanvas /\ initialDrawing # Null
    THEN loadDrawing(NewInstance(s), initialDrawing, sharing)
    ELSE NewInstance(s)

----------------------------------------------------------------------------
(* debounce(func, wait, { leading: false, trailing: true }) *)

Undefined == -1
leading == FALSE
trailing == TRUE
wait == AutoSaveDelay

\* the closure's variables after debounce() returned; "timers" holds the
\* deadlines of its pending setTimeout calls in the order they were made
NewDebounce ==
    [timeoutId |-> Undefined, lastCallTime |-> Undefined, lastInvokeTime |-> 0,
     lastArgs |-> <<>>, timers |-> <<>>]

\* a step of the closure: its variables afterwards and the argument lists func
\* was invoked with
Quiet(d) == [closure |-> d, invoked |-> <<>>]

setTimeout(d, deadline) ==
    [d EXCEPT !.timeoutId = deadline, !.timers = Append(d.timers, deadline)]

invokeFunc(d, time) ==
    [closure |-> [d EXCEPT !.lastArgs = <<>>, !.lastInvokeTime = time],
     invoked |-> <<d.lastArgs>>]

leadingEdge(d, time) ==
    LET d1 == setTimeout([d EXCEPT !.lastInvokeTime = time], time + wait)
    IN IF leading THEN invokeFunc(d1, time) ELSE Quiet(d1)

remainingWait(d, time) == wait - (time - d.lastCallTime)

shouldInvoke(d, time) ==
    \/ d.lastCallTime = Undefined
    \/ time - d.lastCallTime >= wait
    \/ time - d.lastCallTime < 0
    \/ time - d.lastInvokeTime >= wait

trailingEdge(d, time) ==
    LET d1 == [d EXCEPT !.timeoutId = Undefined]
    IN IF trailing /\ d1.lastArgs # <<>> THEN invokeFunc(d1, time)
       ELSE Quiet([d1 EXCEPT !.lastArgs = <<>>])

\* the timer at position i of d.timers fires
timerExpired(d, i, time) ==
    LET d1 == [d EXCEPT !.timers = SubSeq(d.timers, 1, i - 1)
                                   \o SubSeq(d.timers, i + 1, Len(d.timers))]
    IN IF shouldInvoke(d1, time) THEN trailingEdge(d1, time)
       ELSE Quiet(setTimeout(d1, time + remainingWait(d1, time)))

debounced(d, time, args) ==
    LET isInvoking == shouldInvoke(d, time)
        d1 == [d EXCEPT !.lastArgs = args, !.lastCallTime = time]
    IN IF isInvoking
       THEN IF d1.timeoutId = Undefined THEN leadingEdge(d1, time)
            ELSE invokeFunc(setTimeout(d1, time + wait), time)
       ELSE IF d1.timeoutId = Undefined THEN Quiet(setTimeout(d1, time + wait))
            ELSE Quiet(d1)

\* the position of the first pending timer that is due, 0 when none is
DueTimer(d, time) ==
    IF \E i \in DOMAIN d.timers : d.timers[i] <= time
    THEN CHOOSE i \in DOMAIN d.timers :
            /\ d.timers[i] <= time
            /\ \A j \in DOMAIN d.timers : d.timers[j] <= time => i <= j
    ELSE 0

----------------------------------------------------------------------------
(* MainEditor and the rich text editor: the auto-save of the note text *)

\* the editor side of MainEditor: the store, the current note, the editor's
\* content and lastSavedContent, with the clock
Editor ==
    [notes |-> notes, currentNoteId |-> currentNoteId,
     editorContent |-> editorContent, lastSavedContent |-> lastSavedContent,
     now |-> now, autoSaveTimeout |-> autoSaveTimeout]

NoteContent(e) ==
    LET n == CHOOSE n \in DOMAIN e.notes : e.notes[n].id = e.currentNoteId
    IN e.notes[n].content

\* $: if (note && editorComponent) { ... editorComponent.setContent(noteContent);
\*                                     lastSavedContent = noteContent; }
\* (setContent emits no update event: the editor library's default)
syncEditor(e) ==
    IF HasNote(e.notes, e.currentNoteId) /\ NoteContent(e) # e.editorContent
    THEN [e EXCEPT !.editorContent = NoteContent(e), !.lastSavedContent = NoteContent(e)]
    ELSE e

\* notesActions.updateNote(id, updates): { ...note, ...updates, updatedAt: Date.now() }
updateNote(e, id, updates) ==
    saveToStorage(
        [e EXCEPT !.notes = [n \in DOMAIN e.notes |->
                IF e.notes[n].id = id
                THEN [k \in DOMAIN e.notes[n] |->
                        IF k = "updatedAt" THEN e.now
                        ELSE IF k \in DOMAIN updates THEN updates[k]
                        ELSE e.notes[n][k]]
                ELSE e.notes[n]]],
        e.now)

\* the function MainEditor hands to debounceAutoSave, which saves under the id
\* of the note that is current when it runs; the reactive statement follows
\* the change of the store
autoSave(e, content) ==
    IF HasNote(e.notes, e.currentNoteId) /\ content # e.lastSavedContent
    THEN syncEditor([updateNote(e, e.currentNoteId, [content |-> content])
                        EXCEPT !.lastSavedContent = content])
    ELSE e

\* handleSave: the editor's save event
handleSave(e) ==
    IF HasNote(e.notes, e.currentNoteId)
    THEN syncEditor([updateNote(e, e.currentNoteId, [content |-> e.editorContent])
                        EXCEPT !.lastSavedContent = e.editorContent])
    ELSE e

\* notesActions.setCurrentNote(id), and the reactive statement that follows the
\* change of the current note
setCurrentNote(e, id) == syncEditor([e EXCEPT !.currentNoteId = id])

\* func.apply(thisArg, args) for each invocation of a step
RECURSIVE ApplyAutoSave(_, _)
ApplyAutoSave(e, invoked) ==
    IF invoked = <<>> THEN e ELSE ApplyAutoSave(autoSave(e, Head(invoked)[1]), Tail(invoked))

RECURSIVE ApplyHandleSave(_, _)
ApplyHandleSave(e, invoked) ==
    IF invoked = <<>> THEN e ELSE ApplyHandleSave(handleSave(e), Tail(invoked))

NoInvocation == [time |-> 0, call |-> 0, args |-> EmptyText]

----------------------------------------------------------------------------
(* notesStore.js: the actions on notes and the derived list of the sidebar *)

\* String.prototype.toLowerCase, on the letters A to Z
toLowerCase(str) ==
    [i \in DOMAIN str |-> IF str[i] \in 65..90 THEN str[i] + 32 ELSE str[i]]

\* String.prototype.trim, of spaces
trim(str) ==
    LET inked == {i \in DOMAIN str : str[i] # 32}
    IN IF inked = {} THEN <<>>
       ELSE SubSeq(str, CHOOSE i \in inked : \A j \in inked : i <= j,
                        CHOOSE i \in inked : \A j \in inked : i >= j)

\* String.prototype.includes
includes(str, sub) ==
    \E i \in 0..(Len(str) - Len(sub)) : SubSeq(str, i + 1, i + Len(sub)) = sub

\* a > b on strings: by the first code unit that differs, a prefix being less
StrGreater(a, b) ==
    \E k \in DOMAIN a :
        /\ \A j \in 1..(k - 1) : j \in DOMAIN b /\ a[j] = b[j]
        /\ k \in DOMAIN b => a[k] > b[k]

\* the HTML of a note text: "" for the empty text, else "n" and two digits
ContentText(content) ==
    IF content = EmptyText THEN <<>> ELSE <<110, 48 + content[1], 48 + content[2]>>

\* uuidv4(): an id that no note of the store has
NewId(store) ==
    CHOOSE i \in 1..(Len(store) + 1) :
        /\ \A n \in DOMAIN store : store[n].id # i
        /\ \A j \in 1..(i - 1) : \E n \in DOMAIN store : store[n].id = j

\* notesActions.createNote(title, content): the new note is put first and
\* becomes the current note
createNote(e, title, content) ==
    LET newNote == [id |-> NewId(e.notes), title |-> title, content |-> content,
                    tags |-> <<>>, createdAt |-> e.now, updatedAt |-> e.now,
                    isPinned |-> FALSE, drawings |-> <<>>]
    IN syncEditor([saveToStorage(e, e.now) EXCEPT !.notes = <<newNote>> \o e.notes,
                                                 !.currentNoteId = newNote.id])

\* notesActions.togglePin(id)
togglePin(e, id) ==
    syncEditor([saveToStorage(e, e.now) EXCEPT !.notes = [n \in DOMAIN e.notes |->
                IF e.notes[n].id = id
                THEN [e.notes[n] EXCEPT !.isPinned = ~e.notes[n].isPinned,
                                        !.updatedAt = e.now]
                ELSE e.notes[n]]])

\* notesActions.addTag(noteId, tag)
addTag(e, noteId, tag) ==
    IF trim(tag) = <<>> THEN e
    ELSE syncEditor([saveToStorage(e, e.now) EXCEPT !.notes = [n \in DOMAIN e.notes |->
                IF /\ e.notes[n].id = noteId
                   /\ \A k \in DOMAIN e.notes[n].tags : e.notes[n].tags[k] # tag
                THEN [e.notes[n] EXCEPT !.tags = Append(e.notes[n].tags, tag),
                                        !.updatedAt = e.now]
                ELSE e.notes[n]]])

\* currentNoteId.set(null)
NoNote == 0

\* notesActions.deleteNote(id): the note is filtered out of the list; the
\* callback of currentNoteId.update discards what its subscriber returns and
\* returns currentId
deleteNote(e, id) ==
    syncEditor([saveToStorage(e, e.now) EXCEPT
                    !.notes = SelectSeq(e.notes, LAMBDA note : note.id # id)])

\* notesActions.deleteAllNotes()
deleteAllNotes(e) ==
    saveToStorage([e EXCEPT !.notes = <<>>, !.currentNoteId = NoNote], e.now)

\* notesActions.importNotes(jsonData), for the text of a notes list
importNotes(e, jsonData) ==
    syncEditor([saveToStorage(e, e.now) EXCEPT !.notes = ParseNotes(jsonData)])

\* notesActions.toggleTagFilter(tag), on the selected tags
toggleTagFilter(tags, tag) ==
    IF \E k \in DOMAIN tags : tags[k] = tag
    THEN SelectSeq(tags, LAMBDA other : other # tag)
    ELSE Append(tags, tag)

\* the comparison function that filteredNotes hands to sort, with the rows
\* reversed for both orders alike
compareNotes_OneOrder(a, b, by, order) ==
    LET Greater(x, y) == IF by = "title" THEN StrGreater(toLowerCase(x), toLowerCase(y))
                         ELSE x > y
        aValue == IF by = "title" THEN a.title
                  ELSE IF by = "createdAt" THEN a.createdAt ELSE a.updatedAt
        bValue == IF by = "title" THEN b.title
                  ELSE IF by = "createdAt" THEN b.createdAt ELSE b.updatedAt
    IN IF Greater(aValue, bValue) THEN 1 ELSE -1

\* the comparison function that filteredNotes hands to sort
compareNotes(a, b, by, order) ==
    LET Greater(x, y) == IF by = "title" THEN StrGreater(toLowerCase(x), toLowerCase(y))
                         ELSE x > y
        aValue == IF by = "title" THEN a.title
                  ELSE IF by = "createdAt" THEN a.createdAt ELSE a.updatedAt
        bValue == IF by = "title" THEN b.title
                  ELSE IF by = "createdAt" THEN b.createdAt ELSE b.updatedAt
    IN IF order = "asc"
       THEN IF Greater(aValue, bValue) THEN 1 ELSE -1
       ELSE IF Greater(bValue, aValue) THEN 1 ELSE -1

\* Array.prototype.sort with that function, which returns no 0 and so is not a
\* consistent comparison when two notes have the same value: the order of such
\* notes is the engine's choice. The outcomes are the arrangements of the list
\* in which no note stands before one that the function puts before it alone.
SortOutcomes(list, by, order) ==
    LET n == Len(list)
        Arrangements == {f \in [1..n -> 1..n] : \A i, j \in 1..n : f[i] = f[j] => i = j}
    IN {[i \in 1..n |-> list[f[i]]] : f \in
            {f \in Arrangements :
                \A i, j \in 1..n :
                    i < j => compareNotes(list[f[i]], list[f[j]], by, order) <= 0}}

\* the note matches the lower-cased search query
MatchesQuery(note, query) ==
    \/ includes(toLowerCase(note.title), query)
    \/ includes(toLowerCase(ContentText(note.content)), query)
    \/ \E k \in DOMAIN note.tags : includes(toLowerCase(note.tags[k]), query)

\* the derived store filteredNotes: the lists it may hold, one for each outcome
\* of the sort
filteredNotes(store, query, tags, by, order) ==
    LET searched == IF trim(query) # <<>>
                    THEN SelectSeq(store, LAMBDA note : MatchesQuery(note, toLowerCase(query)))
                    ELSE store
        filtered == IF Len(tags) > 0
                    THEN SelectSeq(searched, LAMBDA note :
                            \A t \in DOMAIN tags :
                                \E k \in DOMAIN note.tags : note.tags[k] = tags[t])
                    ELSE searched
    IN {SelectSeq(sorted, LAMBDA note : note.isPinned)
            \o SelectSeq(sorted, LAMBDA note : ~note.isPinned) :
        sorted \in SortOutcomes(filtered, by, order)}

----------------------------------------------------------------------------
(* Initial state and the actions: one per event handler *)

Init ==
    /\ isDrawing = InitState.isDrawing
    /\ currentPath = InitState.currentPath
    /\ drawings = InitState.drawings
    /\ undoStack = InitState.undoStack
    /\ redoStack = InitState.redoStack
    /\ currentTool = InitState.currentTool
    /\ strokeColor = InitState.strokeColor
    /\ strokeWidth = InitState.strokeWidth
    /\ roughness = InitState.roughness
    /\ startX = InitState.startX
    /\ startY = InitState.startY
    /\ currentX = InitState.currentX
    /\ currentY = InitState.currentY
    /\ notes = InitState.notes
    /\ shared = InitState.shared
    /\ open = FALSE
    /\ currentNoteId = 1
    /\ canvasWidth = 0
    /\ canvasHeight = 0
    /\ lastError = "none"
    /\ now = StartTime
    /\ editorContent = InitNotes[1].content
    /\ lastSavedContent = EmptyText
    /\ debouncedSave = NewDebounce
    /\ editorDebouncedSave = NewDebounce
    /\ searchQuery = <<>>
    /\ selectedTags = <<>>
    /\ sortBy = "updatedAt"
    /\ sortOrder = "desc"
    /\ autoSaveTimeout = InitState.autoSaveTimeout
    /\ localStorage = StringifyNotes(InitNotes)
    /\ editorState = DEFAULT_STATE
    /\ editorInstance = NoEditor
    /\ hPre = History(InitState)
    /\ hLast = "none"
    /\ hActs = 0
    /\ hNotes = InitNotes
    /\ hTyped = [n \in NoteIds |-> InitNotes[n].content]
    /\ hInvoked = NoInvocation
    /\ hMount = [open |-> FALSE, width |-> DefaultWidth, height |-> DefaultHeight,
                 initialDrawing |-> Null]

\* the handler's result becomes the component's state
Becomes(t) ==
    /\ isDrawing' = t.isDrawing
    /\ currentPath' = t.currentPath
    /\ drawings' = t.drawings
    /\ undoStack' = t.undoStack
    /\ redoStack' = t.redoStack
    /\ currentTool' = t.currentTool
    /\ strokeColor' = t.strokeColor
    /\ strokeWidth' = t.strokeWidth
    /\ roughness' = t.roughness
    /\ startX' = t.startX
    /\ startY' = t.startY
    /\ currentX' = t.currentX
    /\ currentY' = t.currentY
    /\ notes' = t.notes
    /\ shared' = t.shared
    /\ autoSaveTimeout' = t.autoSaveTimeout

\* on:mousedown, on:touchstart
StartDrawing(pos) ==
    /\ open
    /\ UNCHANGED hostVars
    /\ Becomes(startDrawing(State, pos))
    /\ hPre' = History(State)
    /\ hLast' = IF isDrawing THEN "broken" ELSE "open"
    /\ hActs' = IF isDrawing THEN -1 ELSE hActs

\* on:mousemove, on:touchmove
Draw(pos) ==
    /\ open
    /\ UNCHANGED hostVars
    /\ Becomes(draw(State, pos))
    /\ UNCHANGED <<hPre, hLast, hActs>>

\* on:mouseup, on:mouseleave, on:touchend
StopDrawing ==
    /\ open
    /\ UNCHANGED hostVars
    /\ Becomes(stopDrawing(State))
    /\ hPre' = hPre
    /\ hLast' = IF ~isDrawing THEN hLast
                ELSE IF hLast = "open" THEN "gesture" ELSE "stop"
    /\ hActs' = IF ~isDrawing THEN hActs
                ELSE IF /\ hActs >= 0
                        /\ hLast = "open"
                        /\ \/ currentTool = "eraser"
                           \/ stopDrawing(State).drawings # drawings
                     THEN hActs + 1
                     ELSE -1

\* the Undo button
Undo ==
    /\ open
    /\ UNCHANGED hostVars
    /\ Becomes(undo(State))
    /\ hPre' = History(State)
    /\ hLast' = "undo"
    /\ hActs' = -1

\* the Redo button
Redo ==
    /\ open
    /\ UNCHANGED hostVars
    /\ Becomes(redo(State))
    /\ hPre' = IF hLast = "undo" THEN hPre ELSE History(State)
    /\ hLast' = IF hLast = "undo" THEN "undoredo" ELSE "redo"
    /\ hActs' = -1

\* the Clear all button
ClearDrawing ==
    /\ open
    /\ UNCHANGED hostVars
    /\ Becomes(clearDrawing(State))
    /\ hPre' = History(State)
    /\ hLast' = "clear"
    /\ hActs' = IF hActs >= 0 /\ ~isDrawing THEN hActs + 1 ELSE -1

\* a tool button
SelectTool(tool) ==
    /\ open
    /\ UNCHANGED hostVars
    /\ Becomes(selectTool(State, tool))
    /\ hPre' = hPre
    /\ hLast' = "select"
    /\ hActs' = IF isDrawing THEN -1 ELSE hActs

\* a palette button
SelectColor(color) ==
    /\ open
    /\ UNCHANGED hostVars
    /\ Becomes(selectColor(State, color))
    /\ hPre' = hPre
    /\ hLast' = "select"
    /\ hActs' = IF isDrawing THEN -1 ELSE hActs

\* the Size slider: bind:value={strokeWidth}
SetStrokeWidth(w) ==
    /\ open
    /\ UNCHANGED hostVars
    /\ Becomes([State EXCEPT !.strokeWidth = w])
    /\ hPre' = hPre
    /\ hLast' = "select"
    /\ hActs' = IF isDrawing THEN -1 ELSE hActs

\* the Roughness slider: bind:value={roughness}
SetRoughness(r) ==
    /\ open
    /\ UNCHANGED hostVars
    /\ Becomes([State EXCEPT !.roughness = r])
    /\ hPre' = hPre
    /\ hLast' = "select"
    /\ hActs' = IF isDrawing THEN -1 ELSE hActs

\* MainEditor's handleInsertDrawing: showDrawing = true; the modal renders its
\* content, with a new canvas element
HandleInsertDrawing ==
    /\ HasNote(notes, currentNoteId)
    /\ open' = TRUE
    /\ canvasWidth' = IF open THEN canvasWidth ELSE HtmlCanvasWidth
    /\ canvasHeight' = IF open THEN canvasHeight ELSE HtmlCanvasHeight
    /\ hLast' = IF open THEN hLast ELSE "insert"
    /\ hNotes' = IF open THEN hNotes ELSE notes
    /\ UNCHANGED <<viewVars, localStorage, editorState, editorInstance, progVars, editorVars,
                 lastError, hPre, hActs, hTyped, hInvoked, hMount>>

\* the Cancel button and the modal's close event: cancelDrawing, and MainEditor's
\* handleDrawingCancel: showDrawing = false
CancelDrawing ==
    /\ open
    /\ open' = FALSE
    /\ canvasWidth' = 0
    /\ canvasHeight' = 0
    /\ hLast' = "cancel"
    /\ hActs' = -1
    /\ UNCHANGED <<viewVars, localStorage, editorState, editorInstance, progVars, editorVars,
                 lastError, hPre, hNotes, hTyped, hInvoked, hMount>>

\* the Save Drawing button: saveDrawing, and MainEditor's handleDrawingSave
SaveDrawing ==
    /\ open
    /\ LET t == handleDrawingSave(State, currentNoteId, canvasWidth, canvasHeight, now)
           e == syncEditor([Editor EXCEPT !.notes = t.notes])
           closes == HasNote(notes, currentNoteId)
       IN /\ Becomes(t)
          /\ editorContent' = e.editorContent
          /\ lastSavedContent' = e.lastSavedContent
          /\ open' = IF closes THEN FALSE ELSE open
          /\ canvasWidth' = IF closes THEN 0 ELSE canvasWidth
          /\ canvasHeight' = IF closes THEN 0 ELSE canvasHeight
    /\ hPre' = History(State)
    /\ hNotes' = notes
    /\ hLast' = "save"
    /\ hActs' = -1
    /\ UNCHANGED <<viewVars, localStorage, editorState, editorInstance, currentNoteId, now,
                 debouncedSave, editorDebouncedSave, lastError,
                   hTyped, hInvoked, hMount>>

\* a host creates the component with the props open, width, height and
\* initialDrawing: the script's initialisers, then onMount
Mount(openProp, width, height, initialDrawing, sharing) ==
    /\ LET t == onMount(State, openProp, initialDrawing, sharing)
       IN /\ Becomes(t)
          /\ lastError' = IF Renderable(t.drawings) THEN "none" ELSE "TypeError"
          /\ hActs' = IF t.drawings = <<>> THEN 0 ELSE -1
    /\ open' = openProp
    /\ canvasWidth' = IF openProp THEN width ELSE 0
    /\ canvasHeight' = IF openProp THEN height ELSE 0
    /\ hMount' = [open |-> openProp, width |-> width, height |-> height,
                  initialDrawing |-> initialDrawing]
    /\ hLast' = IF /\ hLast = "save"
                   /\ sharing = <<currentNoteId, Len(notes[currentNoteId].drawings)>>
                THEN "savemount" ELSE "mount"
    /\ hNotes' = notes
    /\ UNCHANGED <<viewVars, localStorage, editorState, editorInstance, editorVars, hPre, hTyped, hInvoked>>

\* the sidebar: notesActions.setCurrentNote(id)
SetCurrentNote(id) ==
    /\ LET e == setCurrentNote(Editor, id)
       IN /\ currentNoteId' = e.currentNoteId
          /\ editorContent' = e.editorContent
          /\ lastSavedContent' = e.lastSavedContent
    /\ hLast' = "switch"
    /\ UNCHANGED <<viewVars, localStorage, editorState, editorInstance, progVars, open,
                 canvasWidth, canvasHeight, lastError, now,
                   debouncedSave, editorDebouncedSave,
                   hPre, hActs, hNotes, hTyped, hInvoked, hMount>>

\* the editor's onUpdate after an edit that makes the content <<current note, v>>:
\* the update event reaches handleEditorUpdate, then the editor calls its own
\* debouncedSave
EditorUpdate(v) ==
    /\ HasNote(notes, currentNoteId)
    /\ <<currentNoteId, v>> # editorContent
    /\ LET content == <<currentNoteId, v>>
           r1 == debounced(debouncedSave, now, <<content>>)
           e1 == ApplyAutoSave([Editor EXCEPT !.editorContent = content], r1.invoked)
           r2 == debounced(editorDebouncedSave, now, <<content>>)
           e2 == ApplyHandleSave(e1, r2.invoked)
       IN /\ debouncedSave' = r1.closure
          /\ editorDebouncedSave' = r2.closure
          /\ notes' = e2.notes
          /\ autoSaveTimeout' = e2.autoSaveTimeout
          /\ editorContent' = e2.editorContent
          /\ lastSavedContent' = e2.lastSavedContent
          /\ hTyped' = [hTyped EXCEPT ![currentNoteId] = content]
          /\ hInvoked' = IF r1.invoked = <<>> THEN hInvoked
                         ELSE [time |-> now, call |-> now, args |-> content]
    /\ UNCHANGED <<viewVars, localStorage, editorState, editorInstance, isDrawing, currentPath,
                 drawings, undoStack, redoStack, currentTool,
                   strokeColor, strokeWidth, roughness, startX, startY, currentX, currentY,
                   shared, open, currentNoteId, canvasWidth, canvasHeight, lastError, now,
                   hPre, hLast, hActs, hNotes, hMount>>

\* a timer of MainEditor's debouncedSave fires: timerExpired
MainTimerExpired ==
    /\ DueTimer(debouncedSave, now) > 0
    /\ LET r == timerExpired(debouncedSave, DueTimer(debouncedSave, now), now)
           e == ApplyAutoSave(Editor, r.invoked)
       IN /\ debouncedSave' = r.closure
          /\ notes' = e.notes
          /\ autoSaveTimeout' = e.autoSaveTimeout
          /\ editorContent' = e.editorContent
          /\ lastSavedContent' = e.lastSavedContent
          /\ hInvoked' = IF r.invoked = <<>> THEN hInvoked
                         ELSE [time |-> now, call |-> debouncedSave.lastCallTime,
                               args |-> Head(r.invoked)[1]]
    /\ UNCHANGED <<viewVars, localStorage, editorState, editorInstance, isDrawing, currentPath,
                 drawings, undoStack, redoStack, currentTool,
                   strokeColor, strokeWidth, roughness, startX, startY, currentX, currentY,
                   shared, open, currentNoteId, canvasWidth, canvasHeight, lastError, now,
                   editorDebouncedSave, hPre, hLast, hActs, hNotes, hTyped, hMount>>

\* a timer of the editor's debouncedSave fires: timerExpired; its function
\* dispatches the save event, which reaches handleSave. Of two timers due at
\* the same time MainEditor's was set first and fires first.
EditorTimerExpired ==
    /\ DueTimer(debouncedSave, now) = 0
    /\ DueTimer(editorDebouncedSave, now) > 0
    /\ LET r == timerExpired(editorDebouncedSave, DueTimer(editorDebouncedSave, now), now)
           e == ApplyHandleSave(Editor, r.invoked)
       IN /\ editorDebouncedSave' = r.closure
          /\ notes' = e.notes
          /\ autoSaveTimeout' = e.autoSaveTimeout
          /\ editorContent' = e.editorContent
          /\ lastSavedContent' = e.lastSavedContent
    /\ UNCHANGED <<viewVars, localStorage, editorState, editorInstance, isDrawing, currentPath,
                 drawings, undoStack, redoStack, currentTool,
                   strokeColor, strokeWidth, roughness, startX, startY, currentX, currentY,
                   shared, open, currentNoteId, canvasWidth, canvasHeight, lastError, now,
                   debouncedSave, hPre, hLast, hActs, hNotes, hTyped, hInvoked, hMount>>

\* time passes, up to the next deadline
Advance(ms) ==
    /\ \A i \in DOMAIN debouncedSave.timers : debouncedSave.timers[i] >= now + ms
    /\ \A i \in DOMAIN editorDebouncedSave.timers :
            editorDebouncedSave.timers[i] >= now + ms
    /\ now' = now + ms
    /\ UNCHANGED <<viewVars, localStorage, editorState, editorInstance, progVars, canvasVars,
                 currentNoteId, editorContent, lastSavedContent,
                   debouncedSave, editorDebouncedSave,
                   hPre, hLast, hActs, hNotes, hTyped, hInvoked, hMount>>

\* what the actions on the notes list leave alone
listFrame == <<isDrawing, currentPath, drawings, undoStack, redoStack, currentTool,
               strokeColor, strokeWidth, roughness, startX, startY, currentX, currentY,
               open, canvasWidth, canvasHeight, lastError, now,
               debouncedSave, editorDebouncedSave, localStorage, editorState, editorInstance,
               hPre, hLast, hActs, hNotes, hTyped, hInvoked, hMount>>

\* the editor record after a store action becomes the state
BecomesEditor(e) ==
    /\ notes' = e.notes
    /\ autoSaveTimeout' = e.autoSaveTimeout
    /\ currentNoteId' = e.currentNoteId
    /\ editorContent' = e.editorContent
    /\ lastSavedContent' = e.lastSavedContent

\* the New Note button: handleCreateNote
CreateNote ==
    /\ BecomesEditor(createNote(Editor, UntitledNote, EmptyText))
    /\ shared' = << <<>> >> \o shared
    /\ UNCHANGED <<listFrame, viewVars>>

\* the title field: handleTitleUpdate
TitleUpdate(title) ==
    /\ HasNote(notes, currentNoteId)
    /\ BecomesEditor(syncEditor(updateNote(Editor, currentNoteId, [title |-> title])))
    /\ UNCHANGED <<listFrame, viewVars, shared>>

\* the pin button of a note in the list: handlePinNote
TogglePin(id) ==
    /\ BecomesEditor(togglePin(Editor, id))
    /\ UNCHANGED <<listFrame, viewVars, shared>>

\* the tag field of the editor: addTag
AddTag(tag) ==
    /\ trim(tag) # <<>> /\ HasNote(notes, currentNoteId)
    /\ BecomesEditor(addTag(Editor, currentNoteId, trim(tag)))
    /\ UNCHANGED <<listFrame, viewVars, shared>>

\* the search field: handleSearch
SetSearchQuery(query) ==
    /\ searchQuery' = query
    /\ UNCHANGED <<listFrame, notes, shared, autoSaveTimeout, currentNoteId, editorContent, lastSavedContent,
                   selectedTags, sortBy, sortOrder>>

\* a tag of the filter panel: handleTagFilter
ToggleTagFilter(tag) ==
    /\ selectedTags' = toggleTagFilter(selectedTags, tag)
    /\ UNCHANGED <<listFrame, notes, shared, autoSaveTimeout, currentNoteId, editorContent, lastSavedContent,
                   searchQuery, sortBy, sortOrder>>

\* the sort menu: handleSortBy
SetSortBy(field) ==
    /\ sortBy' = field
    /\ UNCHANGED <<listFrame, notes, shared, autoSaveTimeout, currentNoteId, editorContent, lastSavedContent,
                   searchQuery, selectedTags, sortOrder>>

\* the sort order button: handleSortOrder
ToggleSortOrder ==
    /\ sortOrder' = IF sortOrder = "asc" THEN "desc" ELSE "asc"
    /\ UNCHANGED <<listFrame, notes, shared, autoSaveTimeout, currentNoteId, editorContent, lastSavedContent,
                   searchQuery, selectedTags, sortBy>>

\* the Delete button of a note: handleDeleteNote, handleDelete (confirmed)
DeleteNote(id) ==
    /\ BecomesEditor(deleteNote(Editor, id))
    /\ shared' = [k \in 1..Len(SelectSeq(notes, LAMBDA note : note.id # id)) |->
                    shared[CHOOSE n \in DOMAIN notes :
                            /\ notes[n].id # id
                            /\ Cardinality({m \in 1..n : notes[m].id # id}) = k]]
    /\ hLast' = "delete"
    /\ UNCHANGED <<isDrawing, currentPath, drawings, undoStack, redoStack, currentTool,
                   strokeColor, strokeWidth, roughness, startX, startY, currentX, currentY,
                   open, canvasWidth, canvasHeight, lastError, now,
                   debouncedSave, editorDebouncedSave, localStorage, editorState, editorInstance, viewVars,
                   hPre, hActs, hNotes, hTyped, hInvoked, hMount>>

\* Settings: Clear all data (confirmed twice): clearAllData
DeleteAllNotes ==
    /\ BecomesEditor(deleteAllNotes(Editor))
    /\ shared' = <<>>
    /\ hLast' = "deleteAll"
    /\ UNCHANGED <<isDrawing, currentPath, drawings, undoStack, redoStack, currentTool,
                   strokeColor, strokeWidth, roughness, startX, startY, currentX, currentY,
                   open, canvasWidth, canvasHeight, lastError, now,
                   debouncedSave, editorDebouncedSave, localStorage, editorState, editorInstance, viewVars,
                   hPre, hActs, hNotes, hTyped, hInvoked, hMount>>

\* Settings: Import, of a file that holds the text of a notes list
ImportNotes(jsonData) ==
    /\ BecomesEditor(importNotes(Editor, jsonData))
    /\ shared' = Unshared(ParseNotes(jsonData))
    /\ hLast' = "import"
    /\ UNCHANGED <<isDrawing, currentPath, drawings, undoStack, redoStack, currentTool,
                   strokeColor, strokeWidth, roughness, startX, startY, currentX, currentY,
                   open, canvasWidth, canvasHeight, lastError, now,
                   debouncedSave, editorDebouncedSave, localStorage, editorState, editorInstance, viewVars,
                   hPre, hActs, hNotes, hTyped, hInvoked, hMount>>

\* editorStore.js: canUndo and canRedo, derived from editorState
canUndo(state) == state.historyIndex > 0

canRedo(state) == state.historyIndex < Len(state.history) - 1

\* addToHistory that pushes onto the whole history
addToHistory_KeepsTail(state, content) ==
    LET pushed == Append(state.history, content)
        newHistory == IF Len(pushed) > MAX_HISTORY_SIZE THEN Tail(pushed) ELSE pushed
    IN [history |-> newHistory,
        historyIndex |-> IF Len(pushed) > MAX_HISTORY_SIZE
                         THEN state.historyIndex ELSE state.historyIndex + 1]

\* editorActions.addToHistory(content): history.slice(0, historyIndex + 1),
\* push, shift when longer than MAX_HISTORY_SIZE
addToHistory(state, content) ==
    LET pushed == Append(SubSeq(state.history, 1, state.historyIndex + 1), content)
        newHistory == IF Len(pushed) > MAX_HISTORY_SIZE THEN Tail(pushed) ELSE pushed
    IN [history |-> newHistory, historyIndex |-> Len(newHistory) - 1]

\* editorActions.undo(), on editorState
editorUndo(state) ==
    IF state.historyIndex > 0
        THEN [state EXCEPT !.historyIndex = state.historyIndex - 1]
        ELSE state

\* editorActions.redo(), on editorState
editorRedo(state) ==
    IF state.historyIndex < Len(state.history) - 1
        THEN [state EXCEPT !.historyIndex = state.historyIndex + 1]
        ELSE state

\* editor.commands.setContent(content) of undo and redo: the entry at the
\* new index goes to the editor, when there is one and the index moved
setContent(instance, state, moved) ==
    IF instance # NoEditor /\ moved.historyIndex # state.historyIndex
        THEN moved.history[moved.historyIndex + 1]
        ELSE instance

\* what the steps on the editor store leave as it is
historyFrame == <<progVars, canvasVars, editorVars, viewVars, localStorage,
                  hPre, hActs, hNotes, hTyped, hInvoked, hMount>>

\* editorActions.initializeEditor(editor), with an empty document
InitializeEditor ==
    /\ editorInstance' = EmptyText
    /\ hLast' = "initializeEditor"
    /\ UNCHANGED <<editorState, historyFrame>>

AddToHistory(content) ==
    /\ editorState' = addToHistory(editorState, content)
    /\ hLast' = "addToHistory"
    /\ UNCHANGED <<editorInstance, historyFrame>>

EditorUndo ==
    /\ editorState' = editorUndo(editorState)
    /\ editorInstance' = setContent(editorInstance, editorState, editorUndo(editorState))
    /\ hLast' = "editorUndo"
    /\ UNCHANGED historyFrame

EditorRedo ==
    /\ editorState' = editorRedo(editorState)
    /\ editorInstance' = setContent(editorInstance, editorState, editorRedo(editorState))
    /\ hLast' = "editorRedo"
    /\ UNCHANGED historyFrame

\* the timer of saveToStorage fires: localStorage.setItem(STORAGE_KEY,
\* JSON.stringify({notes: notesData, ...})) with the notes of that moment
StorageTimerExpired ==
    /\ autoSaveTimeout # NoTimeout /\ autoSaveTimeout <= now
    /\ localStorage' = StringifyNotes(notes)
    /\ autoSaveTimeout' = NoTimeout
    /\ UNCHANGED <<isDrawing, currentPath, drawings, undoStack, redoStack, currentTool,
                   strokeColor, strokeWidth, roughness, startX, startY, currentX, currentY,
                   notes, shared, canvasVars, editorVars, viewVars,
                   editorState, editorInstance,
                   hPre, hLast, hActs, hNotes, hTyped, hInvoked, hMount>>

----------------------------------------------------------------------------
(* Spec: complete gestures of every tool; the toolbar is used between    *)
(* gestures. Short histories.                                             *)

Next ==
    \/ ~open /\ HandleInsertDrawing
    \/ \E pos \in Starts : ~isDrawing /\ Len(undoStack) < MaxHistory /\ StartDrawing(pos)
    \/ \E pos \in Moves : Len(currentPath) < MaxPath /\ Draw(pos)
    \/ (~isDrawing \/ Len(drawings) < MaxShapes) /\ StopDrawing
    \/ ~isDrawing /\ (undoStack = <<>> \/ Len(redoStack) < MaxRedo) /\ Undo
    \/ ~isDrawing /\ Redo
    \/ ~isDrawing /\ Len(undoStack) < MaxHistory /\ ClearDrawing
    \/ \E tool \in ToolIds : ~isDrawing /\ SelectTool(tool)

Spec == Init /\ [][Next]_vars

----------------------------------------------------------------------------
(* SpecGesture: shape gestures from (10,10) to every point of a grid that *)
(* holds displacements of 0, 4 and 5 pixels in both directions.           *)

NextGesture ==
    \/ ~open /\ HandleInsertDrawing
    \/ \E tool \in ShapeTools : ~isDrawing /\ SelectTool(tool)
    \/ ~isDrawing /\ Len(undoStack) < MaxGestures /\ StartDrawing(P1)
    \/ \E x \in GridX, y \in GridY :
          /\ isDrawing /\ currentX = startX /\ currentY = startY
          /\ Len(currentPath) < MaxPath
          /\ Draw(Pt(x, y))
    \/ StopDrawing

SpecGesture == Init /\ [][NextGesture]_vars

----------------------------------------------------------------------------
(* SpecRow: committed actions in a row from the empty canvas, each a pen, *)
(* rectangle or eraser gesture from (10,10) to (60,60) or a clear-all;    *)
(* the tool is chosen during the first actions and then kept, so that the *)
(* row can grow past the history's capacity.                              *)

NextRow ==
    \/ ~open /\ HandleInsertDrawing
    \/ \E tool \in RowTools : ~isDrawing /\ hActs >= 0 /\ hActs < MaxVaried /\ SelectTool(tool)
    \/ ~isDrawing /\ hActs >= 0 /\ hActs < MaxRow /\ StartDrawing(P1)
    \/ isDrawing /\ currentX = startX /\ currentY = startY /\ Draw(P3)
    \/ isDrawing /\ currentX = P3.x /\ StopDrawing
    \/ ~isDrawing /\ hActs >= 0 /\ hActs < MaxVaried /\ ClearDrawing

SpecRow == Init /\ [][NextRow]_vars

----------------------------------------------------------------------------
(* SpecTaps: pen taps at (10,10), and the history buttons at any time,    *)
(* also between pointer-down and pointer-up: a touchstart whose touch is  *)
(* cancelled leaves isDrawing set (touchcancel has no handler), and a     *)
(* focused button answers the keyboard during a mouse drag.               *)

NextTaps ==
    \/ ~open /\ HandleInsertDrawing
    \/ ~isDrawing /\ StartDrawing(P1)
    \/ StopDrawing
    \/ (undoStack = <<>> \/ Len(redoStack) < MaxRedo) /\ Undo
    \/ Redo
    \/ hActs < MaxRow /\ ClearDrawing

SpecTaps == Init /\ [][NextTaps]_vars

----------------------------------------------------------------------------
(* SpecStacks: the history is filled by clear-alls; then pen taps at      *)
(* (10,10) and the history buttons at any time, as in SpecTaps, with the  *)
(* redoStack free to grow past the history's capacity.                    *)

NextStacks ==
    \/ ~open /\ HandleInsertDrawing
    \/ ~isDrawing /\ redoStack = <<>> /\ Len(undoStack) < MaxUndo /\ ClearDrawing
    \/ /\ ~isDrawing /\ Len(undoStack) + Len(redoStack) = MaxUndo
       /\ StartDrawing(P1)
    \/ StopDrawing
    \/ Len(redoStack) < MaxStackRedo /\ Undo
    \/ Redo

SpecStacks == Init /\ [][NextStacks]_vars

----------------------------------------------------------------------------
(* SpecTools: as Spec, with the colour buttons of the toolbar; a tool or   *)
(* a colour is selected between gestures.                                   *)

NextTools ==
    \/ ~open /\ HandleInsertDrawing
    \/ \E tool \in ToolIds : ~isDrawing /\ SelectTool(tool)
    \/ \E color \in colors : ~isDrawing /\ SelectColor(color)
    \/ \E pos \in Starts : ~isDrawing /\ Len(undoStack) < MaxHistory /\ StartDrawing(pos)
    \/ \E pos \in Moves : Len(currentPath) < MaxPath /\ Draw(pos)
    \/ (~isDrawing \/ Len(drawings) < MaxShapes) /\ StopDrawing
    \/ ~isDrawing /\ (undoStack = <<>> \/ Len(redoStack) < MaxRedo) /\ Undo
    \/ ~isDrawing /\ Redo

SpecTools == Init /\ [][NextTools]_vars

----------------------------------------------------------------------------
(* SpecHistory: the history of the editor store: addToHistory, undo and  *)
(* redo in any order; two documents, the second of which is added near   *)
(* the front of the history.                                             *)

HistoryContents == {<<1, 0>>, <<1, 1>>}

NextHistory ==
    \/ editorInstance = NoEditor /\ InitializeEditor
    \/ \E content \in HistoryContents :
          /\ content = <<1, 0>> \/ editorState.historyIndex < MaxHistoryVaried
          /\ AddToHistory(content)
    \/ EditorUndo
    \/ EditorRedo

SpecHistory == Init /\ [][NextHistory]_vars

----------------------------------------------------------------------------
(* SpecSession: drawing sessions on the canvas that MainEditor holds. A     *)
(* session is a few complete pen gestures from (10,10) to (60,60) and      *)
(* undos, ended by Cancel or Save Drawing; notes are switched between      *)
(* sessions.                                                               *)

Locations(store) ==
    UNION {{<<n, d>> : d \in DOMAIN store[n].drawings} : n \in DOMAIN store}

NextSession ==
    \/ ~open /\ HandleInsertDrawing
    \/ ~isDrawing /\ Len(undoStack) < MaxHistory /\ StartDrawing(P1)
    \/ isDrawing /\ currentX = startX /\ currentY = startY /\ Draw(P3)
    \/ isDrawing /\ Len(drawings) < MaxShapes /\ StopDrawing
    \/ ~isDrawing /\ undoStack # <<>> /\ Len(redoStack) < MaxRedo /\ Undo
    \/ ~isDrawing /\ CancelDrawing
    \/ ~isDrawing /\ Cardinality(Locations(notes)) < MaxSaves /\ SaveDrawing
    \/ \E id \in NoteIds : ~open /\ id # currentNoteId /\ SetCurrentNote(id)

SpecSession == Init /\ [][NextSession]_vars

----------------------------------------------------------------------------
(* SpecLoad: canvases that a host mounts with its own props, among them    *)
(* snapshots that sessions of pen gestures saved in the note store; a      *)
(* session ends with Save Drawing or with Cancel. After an uncaught        *)
(* exception only a new mount follows.                                     *)

NextLoad ==
    \/ ~open /\ lastError = "none" /\ HandleInsertDrawing
    \/ ~isDrawing /\ lastError = "none" /\ Len(undoStack) < MaxHistory /\ StartDrawing(P1)
    \/ isDrawing /\ currentX = startX /\ currentY = startY /\ Draw(P3)
    \/ isDrawing /\ Len(drawings) < MaxShapes /\ StopDrawing
    \/ ~isDrawing /\ lastError = "none" /\ CancelDrawing
    \/ /\ ~isDrawing /\ lastError = "none"
       /\ Cardinality(Locations(notes)) < MaxSaves
       /\ SaveDrawing
    \/ \E openProp \in BOOLEAN, size \in CanvasSizes :
          ~isDrawing /\ Mount(openProp, size[1], size[2], Null, <<>>)
    \/ \E malformed \in {NoShapeArray, NullShapeArray} :
          ~isDrawing /\ Mount(TRUE, DefaultWidth, DefaultHeight, malformed, <<>>)
    \/ \E loc \in Locations(notes), openProp \in BOOLEAN, size \in CanvasSizes :
          /\ ~isDrawing
          /\ Mount(openProp, size[1], size[2], notes[loc[1]].drawings[loc[2]], loc)

SpecLoad == Init /\ [][NextLoad]_vars

----------------------------------------------------------------------------
(* SpecErase: pen gestures at stroke width 2 from (10,10) rightwards       *)
(* through up to two more of four points on a line, eraser gestures over   *)
(* the same points at stroke width 2 or 4, clear-all, undo and redo.       *)

NextErase ==
    \/ ~open /\ HandleInsertDrawing
    \/ ~isDrawing /\ strokeWidth = DefaultStrokeWidth /\ SelectTool("pen")
    \/ ~isDrawing /\ SelectTool("eraser")
    \/ \E w \in StrokeWidths : ~isDrawing /\ currentTool = "eraser" /\ SetStrokeWidth(w)
    \/ \E pos \in ErasePts :
          /\ ~isDrawing /\ Len(undoStack) < MaxEraseHistory
          /\ currentTool = "pen" => pos = E1
          /\ StartDrawing(pos)
    \/ \E pos \in ErasePts :
          /\ isDrawing
          /\ currentTool = "pen" => Len(currentPath) < MaxErasePath /\ pos.x > currentX
          /\ Draw(pos)
    \/ isDrawing /\ (currentTool = "eraser" \/ Len(drawings) < MaxShapes) /\ StopDrawing
    \/ ~isDrawing /\ undoStack # <<>> /\ Len(redoStack) < MaxRedo /\ Undo
    \/ ~isDrawing /\ redoStack # <<>> /\ Redo
    \/ ~isDrawing /\ Len(undoStack) < MaxEraseHistory /\ ClearDrawing

SpecErase == Init /\ [][NextErase]_vars

----------------------------------------------------------------------------
(* SpecAutoSave: the text of two notes is edited, the notes are switched   *)
(* and time passes in steps of 100 and 400 ms; timers fire on time.        *)

NextAutoSave ==
    \/ \E v \in 1..MaxVersion : EditorUpdate(v)
    \/ MainTimerExpired
    \/ EditorTimerExpired
    \/ \E ms \in Gaps : now + ms <= StartTime + MaxElapsed /\ Advance(ms)
    \/ \E id \in NoteIds : id # currentNoteId /\ SetCurrentNote(id)

SpecAutoSave == Init /\ [][NextAutoSave]_vars

----------------------------------------------------------------------------
(* SpecList: notes are created, pinned and, while they are the current    *)
(* note, retitled "a" or "B" and tagged "x", at two moments; the list is  *)
(* searched for "B", filtered by the tag and sorted by each field in each *)
(* order.                                                                 *)

SortFields == {"updatedAt", "createdAt", "title"}
Queries == {<<>>, TitleB}

NextList ==
    \/ Len(notes) < MaxNotes /\ CreateNote
    \/ \E title \in {TitleA, TitleB} : TitleUpdate(title)
    \/ \E n \in DOMAIN notes : TogglePin(notes[n].id)
    \/ AddTag(TagX)
    \/ \E query \in Queries : SetSearchQuery(query)
    \/ ToggleTagFilter(TagX)
    \/ \E field \in SortFields : SetSortBy(field)
    \/ ToggleSortOrder
    \/ now + MaxListElapsed <= StartTime + MaxListElapsed /\ Advance(MaxListElapsed)

SpecList == Init /\ [][NextList]_vars

----------------------------------------------------------------------------
(* Properties *)

RECURSIVE UndoTimes(_, _)
UndoTimes(s, n) == IF n = 0 THEN s ELSE UndoTimes(undo(s), n - 1)

\* the latest operation was a complete gesture, with the tool still selected
GestureDone == hLast = "gesture"

\* the latest operation was an original action: a gesture that committed a
\* shape or a pen path, an eraser gesture, or clear-all
OriginalActionDone ==
    \/ hLast = "clear"
    \/ GestureDone /\ (currentTool = "eraser" \/ drawings # hPre.drawings)

\* C1, as claimed: after any n committed actions from the empty canvas, n undos
\* leave the shape list empty.
C1_UndoAll ==
    (hActs >= 0 /\ ~isDrawing) => UndoTimes(State, hActs).drawings = <<>>

\* C1, amended: after n <= 50 committed actions from the empty canvas (shape
\* commits, pen strokes, eraser gestures, clear-all), n undos leave the shape
\* list empty.
C1_UndoAllWithinCapacity ==
    (hActs >= 0 /\ hActs <= MaxUndo /\ ~isDrawing)
        => UndoTimes(State, hActs).drawings = <<>>

C1_Witness ==
    hActs = MaxUndo /\ ~isDrawing /\ Len(drawings) = MaxUndo /\ Len(undoStack) = MaxUndo

\* C2: an undo with a non-empty undoStack followed directly by a redo leaves
\* the shape list, the undoStack and the redoStack as they were before the undo.
C2_UndoRedoInverse ==
    (hLast = "undoredo" /\ hPre.undoStack # <<>>) => History(State) = hPre

C2_Witness ==
    /\ hLast = "undoredo" /\ hPre.undoStack # <<>>
    /\ drawings # <<>>
    /\ JSONstringify(drawings) # undoStack[Len(undoStack)]

\* C3: every entry of the undoStack stands for one committed action: a pen or
\* shape gesture that committed nothing leaves the undoStack as it was.
C3_EntryPerCommittedAction ==
    (GestureDone /\ currentTool # "eraser" /\ drawings = hPre.drawings)
        => undoStack = hPre.undoStack

\* C4: after a complete eraser gesture one undo restores the shape list to what
\* it was before the gesture's pointer-down.
C4_EraserGestureUndone ==
    (GestureDone /\ currentTool = "eraser") => undo(State).drawings = hPre.drawings

C6_HistoryBound ==
    (~isDrawing /\ hActs > MaxUndo /\ Len(drawings) = hActs)
        => /\ Len(undoStack) = MaxUndo
           /\ \A i \in 1..MaxUndo :
                undoStack[i] = JSONstringify(SubSeq(drawings, 1, hActs - MaxUndo + i - 1))

C6_Witness ==
    ~isDrawing /\ hActs = 60 /\ Len(drawings) = 60 /\ drawings[60].type = "rectangle"

\* C7: the undoStack never holds more than 50 entries.
C7_UndoStackBound == Len(undoStack) <= MaxUndo

\* C8: a Rectangle, Circle or Line gesture with |dx| < 5 and |dy| < 5 leaves the
\* shape list as it was before the gesture; one with |dx| >= 5 or |dy| >= 5
\* appends exactly one shape, of the tool's type.
C8_SmallGesture ==
    (GestureDone /\ currentTool \in ShapeTools)
        => IF Abs(currentX - startX) < 5 /\ Abs(currentY - startY) < 5
           THEN drawings = hPre.drawings
           ELSE /\ Len(drawings) = Len(hPre.drawings) + 1
                /\ SubSeq(drawings, 1, Len(hPre.drawings)) = hPre.drawings
                /\ drawings[Len(drawings)].type = currentTool

C8_Witness ==
    /\ GestureDone /\ currentTool = "circle"
    /\ Abs(currentX - startX) < 5 /\ Abs(currentY - startY) >= 5
    /\ Len(drawings) = 2 /\ drawings[1].type = "line"

\* C9: the scenario. From the empty canvas a Rectangle drawn from (10,10) to
\* (60,60) leaves one undo entry and one Rectangle of width 50 and height 50;
\* undo then leaves the shape list empty and one redo entry; redo then restores
\* the Rectangle.
ScenarioRect ==
    [type |-> "rectangle", x |-> 10, y |-> 10, width |-> 50, height |-> 50,
     strokeColor |-> "#000000", strokeWidth |-> 2, fillColor |-> "transparent",
     roughness |-> 10]

ScenarioDrawn ==
    [drawings |-> <<ScenarioRect>>, undoStack |-> <<JSONstringify(<<>>)>>,
     redoStack |-> <<>>]

C9_Scenario ==
    /\ (/\ hActs = 1 /\ GestureDone /\ currentTool = "rectangle"
        /\ startX = 10 /\ startY = 10 /\ currentX = 60 /\ currentY = 60)
            => Len(undoStack) = 1 /\ drawings = <<ScenarioRect>>
    /\ (hLast = "undo" /\ hPre = ScenarioDrawn)
            => drawings = <<>> /\ Len(redoStack) = 1
    /\ (hLast = "undoredo" /\ hPre = ScenarioDrawn)
            => drawings = <<ScenarioRect>>

C9_Witness == hLast = "undoredo" /\ hPre = ScenarioDrawn /\ Len(undoStack) = 1

\* C10: undo with an empty undoStack and redo with an empty redoStack change
\* neither the shape list nor either stack.
C10_EmptyStackNoOp ==
    /\ (hLast = "undo" /\ hPre.undoStack = <<>>) => History(State) = hPre
    /\ (hLast = "redo" /\ hPre.redoStack = <<>>) => History(State) = hPre

C10_Witness ==
    hLast = "redo" /\ hPre.redoStack = <<>> /\ hPre.undoStack # <<>> /\ drawings # <<>>

----------------------------------------------------------------------------
(* Drawing sessions and the note store *)

\* C11: every drawing session opened without an existing snapshot starts with
\* an empty shape list and empty undo and redo stacks, whatever happened in
\* earlier sessions.
C11_SessionStartsEmpty ==
    hLast = "insert" => drawings = <<>> /\ undoStack = <<>> /\ redoStack = <<>>

\* C12: Save Drawing emits one snapshot whose shapes are the current shape list
\* in order; the snapshot is appended at the end of the current note's drawings,
\* the note's earlier drawings and every other note's drawings stay as they
\* were, and the drawing surface closes.
C12_SaveAppendsSnapshot ==
    hLast = "save"
        => LET before == hNotes[currentNoteId].drawings
               after == notes[currentNoteId].drawings
           IN /\ Len(after) = Len(before) + 1
              /\ SubSeq(after, 1, Len(before)) = before
              /\ after[Len(after)].drawings = hPre.drawings
              /\ \A n \in NoteIds : n # currentNoteId => notes[n] = hNotes[n]
              /\ ~open

C12_Witness ==
    /\ hLast = "save" /\ hPre.drawings # <<>>
    /\ Len(notes[currentNoteId].drawings) = 2
    /\ notes[currentNoteId].drawings[1].drawings = <<>>

\* C13: after any sequence of tool actions followed by Cancel, or by closing the
\* modal, the drawings of every note in the store are as they were when the
\* session was opened.
C13_CancelLeavesStore ==
    hLast = "cancel" => \A n \in NoteIds : notes[n].drawings = hNotes[n].drawings

WellFormed(drawingData) ==
    /\ drawingData # Null
    /\ "drawings" \in DOMAIN drawingData
    /\ Renderable(drawingData.drawings)

Loaded == hLast \in {"mount", "savemount"} /\ hMount.open

\* C15: loading a well-formed snapshot replaces the shape list and the canvas
\* dimensions: afterwards the shape list is the snapshot's and the canvas has
\* the snapshot's width and height.
C15_LoadReplacesShapesAndSize ==
    (Loaded /\ WellFormed(hMount.initialDrawing))
        => /\ drawings = hMount.initialDrawing.drawings
           /\ canvasWidth = hMount.initialDrawing.width
           /\ canvasHeight = hMount.initialDrawing.height

\* C16: loading a null, absent or malformed snapshot leaves an empty shape list
\* and raises no error.
C16_MalformedLoadsEmpty ==
    (Loaded /\ ~WellFormed(hMount.initialDrawing))
        => drawings = <<>> /\ lastError = "none"

----------------------------------------------------------------------------
(* The eraser and freehand paths *)

\* C17: in every state reached from the empty canvas by gestures, erasing,
\* clear-all, undo and redo, every freehand path in the shape list has at
\* least 2 points.
C17_PathsHaveTwoPoints ==
    \A i \in DOMAIN drawings : drawings[i].type = "path" => Len(drawings[i].path) >= 2

\* an eraser pointer-down has shortened one path to 2 points and removed another
C17_Witness ==
    /\ hLast = "open" /\ currentTool = "eraser"
    /\ Len(hPre.drawings) = 2 /\ Len(hPre.drawings[1].path) = 3
    /\ Len(drawings) = 1 /\ Len(drawings[1].path) = 2

\* the points of a path farther than radius from (x, y), in their order
Remaining(path, x, y, radius) ==
    SelectSeq(path, LAMBDA point :
        (point.x - x) * (point.x - x) + (point.y - y) * (point.y - y) > radius * radius)

\* a step in which the eraser acts, on pointer-down or on a move, at the pointer
\* position of the state it leads to
C18_EraseStep ==
    (currentTool = "eraser" /\ isDrawing')
        => LET radius == strokeWidth * 3
               Rest(shape) == Remaining(shape.path, currentX', currentY', radius)
               survivors == SelectSeq(drawings, LAMBDA shape : Len(Rest(shape)) >= 2)
           IN /\ Len(drawings') = Len(survivors)
              /\ \A i \in DOMAIN survivors :
                    drawings'[i] = [survivors[i] EXCEPT !.path = Rest(survivors[i])]

\* C18: erasing at a point removes from each freehand path exactly the points
\* whose distance to the point is at most strokeWidth * 3 and keeps the others
\* in their order; a path left with fewer than 2 points is removed. So a path
\* of 3 points whose middle point alone is within the radius becomes the path
\* of its 2 end points.
C18_EraseRemovesNearPoints == [][C18_EraseStep]_vars

\* the eraser at width 2 went down on the middle point of (10,10) (22,10) (29,10)
C18_Witness ==
    /\ hLast = "open" /\ currentTool = "eraser" /\ strokeWidth = 2
    /\ startX = 22 /\ currentX = 22
    /\ hPre.drawings # <<>> /\ hPre.drawings[1].path = <<E1, E3, E4>>
    /\ drawings # <<>> /\ drawings[1].path = <<E1, E4>>

----------------------------------------------------------------------------
(* Debounce and the auto-save *)

\* C19: the function wrapped by debounce with leading = false and trailing =
\* true is never invoked while fewer than wait milliseconds have passed since
\* the most recent call of the wrapper.
C19_NotInvokedWithinWait ==
    hInvoked # NoInvocation => hInvoked.time - hInvoked.call >= wait

\* no timer of either debounced function is pending
NoTimerPending == debouncedSave.timers = <<>> /\ editorDebouncedSave.timers = <<>>

\* C20: the auto-save never stores text typed into one note under another
\* note's id, and once the timers have fired every note holds the text of its
\* latest edit, also when the notes are switched before the 500 ms have passed.
C20_AutoSaveKeepsWork ==
    /\ \A n \in NoteIds : notes[n].content[1] = notes[n].id
    /\ NoTimerPending => \A n \in NoteIds : notes[n].content = hTyped[n]

----------------------------------------------------------------------------
(* The notes list *)

\* the value of the sort field of note a is not after that of note b (titles
\* compared without regard to case, as the list compares them)
NotAfter(a, b, by) ==
    CASE by = "title" -> ~StrGreater(toLowerCase(a.title), toLowerCase(b.title))
      [] by = "createdAt" -> a.createdAt <= b.createdAt
      [] OTHER -> a.updatedAt <= b.updatedAt

\* C21: in the filtered notes list, for every search query, tag filter, sort
\* field and sort order, every pinned note precedes every unpinned note, and
\* the pinned notes among themselves and the unpinned notes among themselves
\* are ordered by the selected sort field in the selected order.
C21_PinnedFirstThenSorted ==
    \A list \in filteredNotes(notes, searchQuery, selectedTags, sortBy, sortOrder) :
        \A i, j \in DOMAIN list :
            i < j => /\ list[j].isPinned => list[i].isPinned
                     /\ list[i].isPinned = list[j].isPinned
                            => IF sortOrder = "asc" THEN NotAfter(list[i], list[j], sortBy)
                               ELSE NotAfter(list[j], list[i], sortBy)

\* two pinned notes titled "B" and "a" and an unpinned one, listed by title
\* downwards in another order than the store's
C21_Witness ==
    /\ sortBy = "title" /\ sortOrder = "desc"
    /\ \E list \in filteredNotes(notes, searchQuery, selectedTags, sortBy, sortOrder) :
            /\ Len(list) = 3 /\ list # notes
            /\ list[1].isPinned /\ list[1].title = TitleB
            /\ list[2].isPinned /\ list[2].title = TitleA
            /\ ~list[3].isPinned

----------------------------------------------------------------------------
(* SpecDrag: gestures of the pen, the rectangle tool and the eraser. The  *)
(* pen and the rectangle go down at (10,10) or (100,100) and move over    *)
(* (12,12) and (60,60), the pen never twice to the same point in a row;   *)
(* the eraser goes down at (60,60) or (100,100) and moves over the same   *)
(* points, so that its move samples hit what its pointer-down has left.   *)

DragTools == {"pen", "rectangle", "eraser"}
DragStarts == {P3, P4}

NextDrag ==
    \/ ~open /\ HandleInsertDrawing
    \/ \E tool \in DragTools : ~isDrawing /\ SelectTool(tool)
    \/ \E pos \in {P1, P4} :
          /\ ~isDrawing /\ currentTool # "eraser" /\ Len(undoStack) < MaxDragHistory
          /\ StartDrawing(pos)
    \/ \E pos \in DragStarts :
          /\ ~isDrawing /\ currentTool = "eraser" /\ Len(undoStack) < MaxDragHistory
          /\ StartDrawing(pos)
    \/ \E pos \in Moves :
          /\ isDrawing
          /\ currentTool = "pen" => Len(currentPath) < MaxDragPath /\ pos # Pt(currentX, currentY)
          /\ Draw(pos)
    \/ isDrawing /\ (currentTool = "eraser" \/ Len(drawings) < MaxDragShapes) /\ StopDrawing

SpecDrag == Init /\ [][NextDrag]_vars

----------------------------------------------------------------------------
(* SpecShape: gestures of the rectangle, circle and line tools from        *)
(* (20,20) to end points in all four directions (displacements of 6 and 8  *)
(* pixels, a distance of 10) and to (40,20), and eraser gestures at stroke *)
(* width 2 (radius 6) whose pointer-down and move samples lie on, just     *)
(* inside and just outside the bounds of those shapes.                     *)

ShapeAnchor == Pt(20, 20)
ShapeEnds == {Pt(26, 28), Pt(14, 28), Pt(26, 12), Pt(14, 12), Pt(40, 20)}
HitPts == {Pt(14, 14), Pt(13, 14), Pt(32, 34), Pt(33, 34), Pt(31, 20), Pt(32, 20),
           Pt(60, 26), Pt(60, 27), Pt(32, 36)}

NextShape ==
    \/ ~open /\ HandleInsertDrawing
    \/ \E tool \in ShapeTools \cup {"eraser"} : ~isDrawing /\ SelectTool(tool)
    \/ /\ ~isDrawing /\ currentTool \in ShapeTools /\ Len(undoStack) < MaxShapeHistory
       /\ StartDrawing(ShapeAnchor)
    \/ \E pos \in HitPts :
          /\ ~isDrawing /\ currentTool = "eraser" /\ Len(undoStack) < MaxShapeHistory
          /\ StartDrawing(pos)
    \/ \E pos \in ShapeEnds :
          /\ isDrawing /\ currentTool \in ShapeTools
          /\ currentX = startX /\ currentY = startY
          /\ Draw(pos)
    \/ \E pos \in HitPts :
          /\ isDrawing /\ currentTool = "eraser"
          /\ currentX = startX /\ currentY = startY
          /\ Draw(pos)
    \/ isDrawing /\ (currentTool = "eraser" \/ Len(drawings) < MaxShapeList) /\ StopDrawing

SpecShape == Init /\ [][NextShape]_vars

----------------------------------------------------------------------------
(* SpecStore: the actions on the notes (create, title, pin, tag, delete,   *)
(* delete all, import, a drawing of the empty canvas saved into the        *)
(* current note) while time passes in steps of 250 and 500 ms up to the    *)
(* deadline of the pending timer of saveToStorage, which then fires. A new *)
(* note's uuid differs from every id in use, the current note id included; *)
(* at most one action on the notes is taken at an instant.                 *)

StoreGaps == {250, 500}
ImportFiles == {StringifyNotes(InitNotes)}

\* no action on the notes has been taken at this instant yet
Untouched == autoSaveTimeout = NoTimeout \/ autoSaveTimeout < now + AUTO_SAVE_DELAY

NextStore ==
    \/ /\ Untouched /\ Len(notes) < MaxStoreNotes /\ NewId(notes) # currentNoteId
       /\ CreateNote
    \/ Untouched /\ TitleUpdate(TitleB)
    \/ \E n \in DOMAIN notes : Untouched /\ TogglePin(notes[n].id)
    \/ Untouched /\ AddTag(TagX)
    \/ \E n \in DOMAIN notes : Untouched /\ DeleteNote(notes[n].id)
    \/ Untouched /\ DeleteAllNotes
    \/ \E jsonData \in ImportFiles : Untouched /\ ImportNotes(jsonData)
    \/ ~open /\ HandleInsertDrawing
    \/ open /\ Untouched /\ SaveDrawing
    \/ \E ms \in StoreGaps :
          /\ now + ms <= StartTime + MaxStoreElapsed
          /\ autoSaveTimeout = NoTimeout \/ now + ms <= autoSaveTimeout
          /\ Advance(ms)
    \/ StorageTimerExpired

SpecStore == Init /\ [][NextStore]_vars

----------------------------------------------------------------------------
(* Gestures: what each pointer event does to the history and to the list *)

\* the undoStack after the serialized list is pushed onto stack
Pushed(stack, list) ==
    LET pushed == Append(stack, JSONstringify(list))
    IN IF Len(pushed) > MaxUndo THEN Tail(pushed) ELSE pushed

\* a pointer-down pushes the serialized list of the state it starts from; a
\* move sample and a pointer-up leave the undoStack alone
C22_GestureStep ==
    /\ (~isDrawing /\ isDrawing') => undoStack' = Pushed(undoStack, drawings)
    /\ isDrawing => undoStack' = undoStack

\* C22: exactly one snapshot is pushed onto the undoStack per gesture, at the
\* pointer-down, and it is the serialized shape list as it was before the
\* gesture changed anything; the move samples and the pointer-up push nothing.
C22_OneSnapshotBeforeGesture == [][C22_GestureStep]_vars

\* C23: while no gesture is in progress a move sample and a pointer-up are
\* ignored: the shape list, the path accumulator, the undoStack and the
\* redoStack (and every other field) stay as they are and the canvas stays
\* idle; and a pointer-up always leaves the canvas idle.
C23_IdleIgnoresMoveAndEnd ==
    /\ ~isDrawing => /\ \A pos \in Pts : draw(State, pos) = State
                     /\ stopDrawing(State) = State
    /\ ~stopDrawing(State).isDrawing

\* an idle canvas with a shape, an undoStack entry and a redoStack entry, the
\* pen selected
C23_Witness ==
    /\ ~isDrawing /\ currentTool = "pen"
    /\ drawings # <<>> /\ undoStack # <<>> /\ redoStack # <<>>

\* a step of a gesture in progress: a move sample keeps isDrawing, the
\* pointer-up resets it
C24_GestureStep ==
    /\ (isDrawing /\ isDrawing' /\ currentTool # "eraser") => drawings' = drawings
    /\ (isDrawing /\ ~isDrawing' /\ currentTool # "eraser")
            => \/ drawings' = drawings
               \/ /\ Len(drawings') = Len(drawings) + 1
                  /\ SubSeq(drawings', 1, Len(drawings)) = drawings
    /\ (isDrawing /\ isDrawing' /\ currentTool = "eraser")
            => drawings' = erase(State, currentX', currentY').drawings
    /\ (isDrawing /\ ~isDrawing' /\ currentTool = "eraser") => drawings' = drawings

\* C24: during a drag of the pen or of a shape tool the move samples leave
\* the committed shape list unchanged, and the list changes only at the
\* pointer-up, by at most one shape appended; during a drag of the eraser
\* every move sample erases from the list at its position and the pointer-up
\* changes nothing further.
C24_ListChangesAtGestureEnd == [][C24_GestureStep]_vars

\* an eraser drag removed a shape with a move sample, after a shape-tool or
\* pen gesture had committed it at its pointer-up
C24_Witness ==
    /\ currentTool = "eraser" /\ isDrawing
    /\ Pt(currentX, currentY) # Pt(startX, startY)
    /\ hPre.drawings # <<>> /\ Len(drawings) < Len(hPre.drawings)
    /\ Len(undoStack) = 2 /\ JSONparse(undoStack[2]) = hPre.drawings

\* a step of a pen gesture: the pointer-down starts the path with its
\* position, a move sample appends its position, and the pointer-up of a
\* path of 2 or more points appends that path to the list as one shape
C25_PenStep ==
    currentTool = "pen" =>
        /\ (~isDrawing /\ isDrawing') => currentPath' = <<Pt(startX', startY')>>
        /\ (isDrawing /\ isDrawing')
                => currentPath' = Append(currentPath, Pt(currentX', currentY'))
        /\ (isDrawing /\ ~isDrawing' /\ Len(currentPath) >= 2)
                => /\ Len(drawings') = Len(drawings) + 1
                   /\ SubSeq(drawings', 1, Len(drawings)) = drawings
                   /\ drawings'[Len(drawings')].type = "path"
                   /\ drawings'[Len(drawings')].path = currentPath

\* C25: a pen gesture with at least one move sample commits a freehand path
\* whose points are the pointer-down position followed by every move sample in
\* the order received, also when the displacement of the gesture is below 5
\* pixels in both directions.
C25_PenCommitsEverySample == [][C25_PenStep]_vars

\* the pen went from (10,10) over (60,60) back to (12,12), a displacement of 2
\* pixels, and the path of the three points is in the list
C25_Witness ==
    /\ hLast = "gesture" /\ currentTool = "pen"
    /\ startX = 10 /\ currentX = 12
    /\ Len(drawings) = Len(hPre.drawings) + 1
    /\ drawings[Len(drawings)].path = <<P1, P3, P2>>

\* a step that commits a shape or erases: the pointer-up of the pen or of a
\* shape tool keeps the list or appends one shape behind it; a sample of the
\* eraser drops the shapes it hits (a path when fewer than 2 of its points are
\* left) and keeps the others as they were, but for the points it removed, in
\* the order they had
C26_ListStep ==
    /\ (isDrawing /\ ~isDrawing' /\ currentTool # "eraser")
            => \/ drawings' = drawings
               \/ \E shape \in {drawings'[Len(drawings')]} :
                     drawings' = Append(drawings, shape)
    /\ (currentTool = "eraser" /\ isDrawing')
            => LET radius == strokeWidth * 3
                   Rest(shape) == Remaining(shape.path, currentX', currentY', radius)
                   Hit(shape) == IF shape.type = "path" THEN Len(Rest(shape)) < 2
                                 ELSE isPointInShape(currentX', currentY', shape, radius)
                   survivors == SelectSeq(drawings, LAMBDA shape : ~Hit(shape))
               IN /\ Len(drawings') = Len(survivors)
                  /\ \A i \in DOMAIN survivors :
                        drawings'[i] = IF survivors[i].type = "path"
                                       THEN [survivors[i] EXCEPT !.path = Rest(survivors[i])]
                                       ELSE survivors[i]

\* C26: the shape list is ordered by commit time: every committed shape is
\* appended at the end of the list, and an erase removes only the shapes and
\* path points it hits, while every surviving shape keeps its content and its
\* position relative to the other survivors.
C26_ListInCommitOrder == [][C26_ListStep]_vars

\* the eraser removed the second of three committed shapes, and the first and
\* the third, two different shapes, are left in that order
C26_Witness ==
    /\ currentTool = "eraser" /\ isDrawing
    /\ Len(hPre.drawings) = 3 /\ Len(drawings) = 2
    /\ hPre.drawings[1] # hPre.drawings[3]
    /\ drawings[1] = hPre.drawings[1] /\ drawings[2] = hPre.drawings[3]

----------------------------------------------------------------------------
(* History entries and stored snapshots as copies *)

\* stack after the step holds the entries of stack before it as they were, but
\* for those popped from its end or evicted from its front
EntriesKept(before, after) ==
    \/ /\ Len(after) <= Len(before)
       /\ after = SubSeq(before, 1, Len(after))
    \/ /\ Len(after) = Len(before) + 1
       /\ SubSeq(after, 1, Len(before)) = before
    \/ /\ Len(after) = Len(before) /\ Len(before) = MaxUndo
       /\ SubSeq(after, 1, Len(before) - 1) = Tail(before)

\* a step of the canvas: the entries of both stacks stay as they were pushed;
\* an entry pushed parses to the live list of that moment (the eraser's
\* pointer-down pushes after its first sample); undo and redo make the list
\* the one their entry parses to
C27_HistoryStep ==
    /\ EntriesKept(undoStack, undoStack')
    /\ EntriesKept(redoStack, redoStack')
    /\ Len(undoStack') > Len(undoStack)
            => JSONparse(undoStack'[Len(undoStack')])
                    = IF hLast' = "open" THEN drawings' ELSE drawings
    /\ Len(redoStack') > Len(redoStack)
            => JSONparse(redoStack'[Len(redoStack')]) = drawings
    /\ (hLast' = "undo" /\ undoStack # <<>>)
            => drawings' = JSONparse(undoStack[Len(undoStack)])
    /\ (hLast' \in {"redo", "undoredo"} /\ redoStack # <<>>)
            => drawings' = JSONparse(redoStack[Len(redoStack)])

\* C27: history snapshots are deep copies: once pushed, an entry of the
\* undoStack or of the redoStack never changes until it is popped or evicted,
\* although erase mutates the point lists of the live paths in place, and the
\* list that undo or redo restores is the list as it was when the snapshot was
\* taken.
C27_SnapshotsAreCopies == [][C27_HistoryStep]_vars

\* the eraser has taken the middle point out of the live path (10,10) (22,10)
\* (29,10), and an entry of the undoStack still holds the path of 3 points
C27_Witness ==
    /\ currentTool = "eraser" /\ hLast \in {"open", "gesture"}
    /\ Len(drawings) = 1 /\ drawings[1].path = <<E1, E4>>
    /\ \E i \in DOMAIN undoStack :
          /\ Len(undoStack[i]) >= 1
          /\ JSONparse(undoStack[i])[1].path = <<E1, E3, E4>>

\* a step leaves the shapes of every snapshot that is in the note store as
\* they were
C28_StoreStep ==
    \A n \in DOMAIN notes : \A d \in DOMAIN notes[n].drawings :
        (n \in DOMAIN notes' /\ d \in DOMAIN notes'[n].drawings)
            => notes'[n].drawings[d].drawings = notes[n].drawings[d].drawings

\* C28: a snapshot handed to the note store by save is a serialized copy: no
\* later action on the canvas (commit, erase, clear-all, undo, redo), in the
\* same or in a later session, changes the shapes of a stored snapshot.
C28_StoredSnapshotsNeverChange == [][C28_StoreStep]_vars

\* C29: a session opened from an existing snapshot and then cancelled leaves
\* that snapshot unchanged: the commits and erases made in the session do not
\* alter the shape array or the point lists of the snapshot that was passed
\* in, so that after the cancel every snapshot of the store is as it was when
\* the canvas was mounted with it.
C29_CancelLeavesLoadedSnapshot ==
    (hLast = "cancel" /\ hMount.open /\ WellFormed(hMount.initialDrawing))
        => \A n \in NoteIds : notes[n].drawings = hNotes[n].drawings

----------------------------------------------------------------------------
(* Clear all *)

\* a step of the Clear all button, and the step of an undo that follows it
\* directly (hPre then still holds the history as it was before the clear)
C30_ClearStep ==
    /\ hLast' = "clear"
            => /\ undoStack' = Pushed(undoStack, drawings)
               /\ drawings' = <<>>
               /\ redoStack' = <<>>
    /\ (hLast = "clear" /\ hLast' = "undo") => drawings' = hPre.drawings

----------------------------------------------------------------------------
(* The geometry of the committed shapes and of the eraser's hit test *)

\* the shape that the gesture which has just ended appended to the list
Committed == drawings[Len(drawings)]

\* C31: a committed Rectangle does not depend on the direction of the drag:
\* for the anchor (ax,ay) and the end point (bx,by) it has x = min(ax,bx),
\* y = min(ay,by), width = |bx-ax| and height = |by-ay|, so that width and
\* height are never negative; a committed Line stores (x1,y1) = anchor and
\* (x2,y2) = end point as they are.
C31_RectangleAndLineGeometry ==
    /\ (GestureDone /\ currentTool = "rectangle" /\ drawings # hPre.drawings)
            => /\ Committed.type = "rectangle"
               /\ Committed.x = Min(startX, currentX)
               /\ Committed.y = Min(startY, currentY)
               /\ Committed.width = Abs(currentX - startX)
               /\ Committed.height = Abs(currentY - startY)
    /\ (GestureDone /\ currentTool = "line" /\ drawings # hPre.drawings)
            => /\ Committed.type = "line"
               /\ Committed.x1 = startX /\ Committed.y1 = startY
               /\ Committed.x2 = currentX /\ Committed.y2 = currentY
    /\ \A i \in DOMAIN drawings :
            drawings[i].type = "rectangle"
                => drawings[i].width >= 0 /\ drawings[i].height >= 0

\* a Rectangle dragged from (20,20) up and to the left, to (14,12), after a
\* Line dragged the same way
C31_Witness ==
    /\ GestureDone /\ currentTool = "rectangle"
    /\ startX = 20 /\ startY = 20 /\ currentX = 14 /\ currentY = 12
    /\ Len(drawings) = 2
    /\ drawings[1].type = "line" /\ drawings[1].x2 = 14 /\ drawings[1].y2 = 12
    /\ Committed.x = 14 /\ Committed.y = 12
    /\ Committed.width = 6 /\ Committed.height = 8

\* C32: a committed Circle is centred at the anchor of the gesture, not at the
\* midpoint of the anchor and the end point, and its radius r is half the
\* distance between the two: (2r)^2 = dx^2 + dy^2. (The radius field holds
\* (2r)^2, the radicand of Math.sqrt(...) / 2.)
C32_CircleGeometry ==
    (GestureDone /\ currentTool = "circle" /\ drawings # hPre.drawings)
        => /\ Committed.type = "circle"
           /\ Committed.x = startX /\ Committed.y = startY
           /\ Committed.radius = (currentX - startX) * (currentX - startX)
                                 + (currentY - startY) * (currentY - startY)

\* a Circle dragged from (20,20) to (14,28): centre (20,20), radius 5
C32_Witness ==
    /\ GestureDone /\ currentTool = "circle"
    /\ startX = 20 /\ startY = 20 /\ currentX = 14 /\ currentY = 28
    /\ drawings # hPre.drawings
    /\ Committed.x = 20 /\ Committed.y = 20 /\ Committed.radius = 4 * 5 * 5

\* the rectangles and circles of a list, in their order
BoxesAndCircles(list) ==
    SelectSeq(list, LAMBDA shape : shape.type \in {"rectangle", "circle"})

\* twice the distance whose square is d2 is at most Math.sqrt(n) + 2 * r
WithinReach(d2, n, r) ==
    LET e == 4 * d2 + n - 4 * r * r
    IN 4 * d2 <= n \/ e <= 0 \/ e * e <= 16 * d2 * n

\* a sample of the eraser at (px,py), the pointer position of the state the
\* step leads to: the rectangles and circles left are those outside the bounds
C33_EraseStep ==
    (currentTool = "eraser" /\ isDrawing')
        => LET px == currentX'
               py == currentY'
               r == strokeWidth * 3
               Hit(shape) ==
                    IF shape.type = "rectangle"
                    THEN /\ shape.x - r <= px /\ px <= shape.x + shape.width + r
                         /\ shape.y - r <= py /\ py <= shape.y + shape.height + r
                    ELSE WithinReach((px - shape.x) * (px - shape.x)
                                        + (py - shape.y) * (py - shape.y),
                                     shape.radius, r)
           IN BoxesAndCircles(drawings')
                = SelectSeq(BoxesAndCircles(drawings), LAMBDA shape : ~Hit(shape))

\* C33: an erase at the point (px,py) with radius r removes a Rectangle
\* exactly when x-r <= px <= x+width+r and y-r <= py <= y+height+r, bounds
\* included, and removes a Circle exactly when the distance from (px,py) to
\* its centre is at most radius + r; otherwise the shape stays in the list
\* unchanged.
C33_EraseHitsBoxesAndCircles == [][C33_EraseStep]_vars

\* the eraser went down at (31,20), at distance 5 + 6 from the centre of the
\* Circle of radius 5 at (20,20) and 5 pixels right of the bound 26 of the
\* Rectangle from (14,12) to (20,20): the Circle is gone, the Rectangle stays
C33_Witness ==
    /\ currentTool = "eraser" /\ hLast = "open" /\ startX = 31 /\ startY = 20
    /\ Len(hPre.drawings) = 2
    /\ hPre.drawings[1].type = "rectangle" /\ hPre.drawings[1].x = 14
    /\ hPre.drawings[2].type = "circle" /\ hPre.drawings[2].radius = 100
    /\ drawings = <<hPre.drawings[1]>>

\* the lines of a list, in their order
Lines(list) == SelectSeq(list, LAMBDA shape : shape.type = "line")

\* a sample of the eraser at (px,py): the lines left are those whose infinite
\* line is farther than r from the point (distance = |cross product| / length)
C34_EraseStep ==
    (currentTool = "eraser" /\ isDrawing')
        => LET px == currentX'
               py == currentY'
               r == strokeWidth * 3
               Cross(line) == (line.x2 - line.x1) * (py - line.y1)
                              - (line.y2 - line.y1) * (px - line.x1)
               Length2(line) == (line.x2 - line.x1) * (line.x2 - line.x1)
                                + (line.y2 - line.y1) * (line.y2 - line.y1)
               Hit(line) == Cross(line) * Cross(line) <= r * r * Length2(line)
           IN Lines(drawings') = SelectSeq(Lines(drawings), LAMBDA line : ~Hit(line))

\* C34: an erase at the point p with radius r removes a Line exactly when the
\* perpendicular distance from p to the infinite line through its two
\* endpoints is at most r; the test is not clamped to the segment, so that a
\* point collinear with the segment but beyond one of its endpoints still
\* removes the Line.
C34_EraseHitsInfiniteLine == [][C34_EraseStep]_vars

\* the eraser went down at (60,26), 20 pixels beyond the end of the Line from
\* (20,20) to (40,20) and 6 pixels from the line through it, and the Line is
\* gone
C34_Witness ==
    /\ currentTool = "eraser" /\ hLast = "open" /\ startX = 60 /\ startY = 26
    /\ Len(hPre.drawings) = 1 /\ hPre.drawings[1].type = "line"
    /\ hPre.drawings[1].x2 = 40 /\ hPre.drawings[1].y2 = 20
    /\ drawings = <<>>

----------------------------------------------------------------------------
(* The notes store: deleting notes and writing the list to local storage *)

\* the id of the note that a step removes from the list
Deleted == CHOOSE id \in {notes[n].id : n \in DOMAIN notes} : ~HasNote(notes', id)

\* C35: after deleteNote(id) of the current note, with another note left,
\* the current note id is the id of a remaining note; after deleteNote of
\* another note the current note id is unchanged
C35_DeleteStep ==
    (hLast' = "delete" /\ Len(notes') < Len(notes)) =>
        IF currentNoteId = Deleted
            THEN notes' # <<>> => HasNote(notes', currentNoteId')
            ELSE currentNoteId' = currentNoteId

C35_DeleteSelectsAnother == [][C35_DeleteStep]_vars

\* while no write is pending the stored text holds the notes list; a pending
\* write is due AUTO_SAVE_DELAY after some instant that has been reached
C36_Settled ==
    /\ autoSaveTimeout = NoTimeout => ParseNotes(localStorage) = notes
    /\ autoSaveTimeout # NoTimeout =>
          /\ now <= autoSaveTimeout
          /\ autoSaveTimeout <= now + AUTO_SAVE_DELAY

\* a change of the notes list writes nothing and moves the one pending
\* write to AUTO_SAVE_DELAY after it; the stored text changes only when
\* that write is due, to the text of the notes list of that moment
C36_StoreStep ==
    /\ notes' # notes =>
          /\ autoSaveTimeout' = now + AUTO_SAVE_DELAY
          /\ localStorage' = localStorage
    /\ localStorage' # localStorage =>
          /\ autoSaveTimeout # NoTimeout /\ autoSaveTimeout <= now
          /\ autoSaveTimeout' = NoTimeout
          /\ notes' = notes
          /\ ParseNotes(localStorage') = notes

----------------------------------------------------------------------------
(* The two stacks of the canvas' history under undo and redo *)

\* an undo or a redo that is not a no-op keeps len(undoStack) + len(redoStack)
C37_UndoRedoStep ==
    (/\ hLast' \in {"undo", "redo", "undoredo"}
     /\ <<undoStack', redoStack'>> # <<undoStack, redoStack>>)
        => Len(undoStack') + Len(redoStack') = Len(undoStack) + Len(redoStack)

C37_StacksConserved == [][C37_UndoRedoStep]_vars

\* C37: undo and redo each move exactly one entry between the two stacks, so
\* len(undoStack) + len(redoStack) is kept by every undo and redo that is not
\* a no-op; consequently the redoStack never holds more than 50 entries
C37_RedoStackBound == C37_StacksConserved /\ [](Len(redoStack) <= MaxUndo)

----------------------------------------------------------------------------
(* The toolbar: selecting a tool or a colour *)

\* C38: selecting a tool or a colour while idle changes only the current
\* tool and the current colour; the shape list, with the stored style of
\* every committed shape, the undoStack and the redoStack are unchanged
C38_SelectStep ==
    (/\ ~isDrawing
     /\ hLast' = "select"
     /\ <<currentTool', strokeColor'>> # <<currentTool, strokeColor>>)
        => /\ drawings' = drawings
           /\ undoStack' = undoStack
           /\ redoStack' = redoStack
           /\ UNCHANGED <<isDrawing, currentPath, strokeWidth, roughness,
                          startX, startY, currentX, currentY, notes, shared>>

C38_SelectionKeepsShapes == [][C38_SelectStep]_vars

\* a colour was selected that differs from the colour of a committed shape,
\* with entries on both stacks
C38_Witness ==
    /\ hLast = "select" /\ ~isDrawing
    /\ undoStack # <<>> /\ redoStack # <<>>
    /\ \E i \in DOMAIN drawings :
          /\ drawings[i].type = "rectangle"
          /\ drawings[i].strokeColor # strokeColor
    /\ currentTool = "eraser"

----------------------------------------------------------------------------
(* The history of the editor store *)

\* at most MAX_HISTORY_SIZE entries; historyIndex is -1 when the history is
\* empty and otherwise an index into it
C39_HistoryShape ==
    /\ Len(editorState.history) <= MAX_HISTORY_SIZE
    /\ IF editorState.history = <<>>
          THEN editorState.historyIndex = -1
          ELSE editorState.historyIndex \in 0..(Len(editorState.history) - 1)

\* undo moves the index down by one and never below 0, redo up by one and
\* never past the last entry, both keep the entries; addToHistory keeps the
\* entries up to the current index, drops the ones after it, appends the
\* content and leaves nothing to redo
C39_HistoryStep ==
    /\ hLast' = "editorUndo" =>
          /\ editorState'.history = editorState.history
          /\ editorState'.historyIndex = editorState.historyIndex
             \/ /\ editorState'.historyIndex = editorState.historyIndex - 1
                /\ editorState'.historyIndex >= 0
    /\ hLast' = "editorRedo" =>
          /\ editorState'.history = editorState.history
          /\ editorState'.historyIndex = editorState.historyIndex
             \/ /\ editorState'.historyIndex = editorState.historyIndex + 1
                /\ editorState'.historyIndex <= Len(editorState.history) - 1
    /\ hLast' = "addToHistory" =>
          LET kept == SubSeq(editorState.history, 1, editorState.historyIndex + 1)
          IN /\ ~canRedo(editorState')
             /\ \E content \in HistoryContents :
                   \/ editorState'.history = Append(kept, content)
                   \/ /\ Len(kept) = MAX_HISTORY_SIZE
                      /\ editorState'.history = Tail(Append(kept, content))

\* C39: in the editor store's history, after any sequence of addToHistory,
\* undo and redo, the history holds at most 50 entries, historyIndex is -1
\* when the history is empty and otherwise a valid index, undo never moves
\* the index below 0, redo never moves it past the last entry, and
\* addToHistory after an undo discards every entry after the current index,
\* so that canRedo is false
C39_HistoryWellFormed == []C39_HistoryShape /\ [][C39_HistoryStep]_vars

\* the editor was taken back to the first entry of a longer history and a
\* different document was added there
C39_Witness ==
    /\ hLast = "addToHistory"
    /\ editorInstance = <<1, 0>>
    /\ editorState.history = << <<1, 0>>, <<1, 1>> >>
    /\ editorState.historyIndex = 1

\* the history is full and the editor is at its first entry
C39_FullHistory ==
    /\ Len(editorState.history) = MAX_HISTORY_SIZE
    /\ editorState.historyIndex = 0
    /\ hLast = "editorUndo"

====
